---------------------------- MODULE Spec2Model ----------------------------
(***************************************************************************)
(* Model of the synthrun obstacle / level progression engine               *)
(* (src/Obstacles.tsx, first copy, lines 1-455) and of the game session    *)
(* controller that drives it (src/Game.tsx, initializeGame, lines 184-655, *)
(* with the start conditions of src/App.tsx).                              *)
(*                                                                         *)
(* Numbers.  The program computes with floating point numbers; the model   *)
(* computes the same expressions exactly, in fixed point:                  *)
(*   deltaTime            in frames of 1/30 s                              *)
(*   speed                in hundredths          (0.5 is 50, 2.0 is 200)   *)
(*   distance, marker z   in 1/200 world unit    (15 is 3000)              *)
(*   marker x, ship x     in tenths              (0.8 is 8)                *)
(*   marker y, ship y     in 1/300 world unit    (1.2 is 360)              *)
(*   funnelProgress       in 1/11000             (1 is 11000)              *)
(*   time                 in frames of 1/30 s    (5 s is 150)              *)
(* so that deltaTime * speed * 15 world units is exactly delta * speed     *)
(* distance units.  Math.random() is a choice from a small set of the      *)
(* values it can return.                                                   *)
(***************************************************************************)
EXTENDS Integers, Sequences, FiniteSets, TLC

VARIABLES
    \* ---- closure state of initializeGame (src/Game.tsx:240-288) ----
    cubes,               \* live marker list
    speed,
    scoreValue,
    isGameOver,
    isStarted,
    isVictory,
    isPaused,
    victoryStartTime,
    obstacleState,       \* ObstacleState record, or Null before start()
    majorLevel,          \* the host's own majorLevel
    isLevelClear,
    levelClearStartTime,
    currentLevel,
    shipX,
    shipY,
    time,                \* timer.getElapsed()
    animating,           \* an animation frame is requested (animationId live)
    listening,           \* the keydown / keyup listeners are registered
    \* ---- the scene (three.Scene children that are obstacle markers) ----
    scene,               \* set of marker ids attached to the scene
    nextId,              \* identity of the next marker object created
    \* ---- App state fed by the callbacks (src/App.tsx:25-31, 118-126) ----
    started,
    gameOver,
    victory,
    score,               \* the score App displays (src/App.tsx:26)
    highScore,           \* useVar('highScore', 0) (src/App.tsx:27)
    isNewHighScore,      \* src/App.tsx:28
    effectDeps,          \* the dependencies the high-score effect last ran with
    \* ---- observations of the last step (history, not program state) ----
    lastOp,              \* name of the last operation
    lastObstacles,       \* markers returned by the last spawnObstacles call
    lastCollision,       \* value returned by the last updateObstacles call
    lastScores,          \* sequence of <<id, delta>> onScore calls of the last step
    lastCulled,          \* markers removed by the last updateObstacles call
    victoryTriggers,     \* executions of the victory branch since start()
    onGameOverCalls,     \* onGameOver invocations since start()
    timesScored,         \* marker id -> number of onScore calls made for it
    fineTicks            \* ticks spent with a delta other than 0 or a stall

vars == << cubes, speed, scoreValue, isGameOver, isStarted, isVictory, isPaused,
           victoryStartTime, obstacleState, majorLevel, isLevelClear,
           levelClearStartTime, currentLevel, shipX, shipY, time, animating, listening,
           scene, nextId, started, gameOver, victory,
           score, highScore, isNewHighScore, effectDeps,
           lastOp, lastObstacles, lastCollision, lastScores, lastCulled,
           victoryTriggers, onGameOverCalls, timesScored, fineTicks >>

Null == [null |-> TRUE]

Min(a, b) == IF a <= b THEN a ELSE b
Max(a, b) == IF a >= b THEN a ELSE b
Abs(a) == IF a >= 0 THEN a ELSE -a

(***************************************************************************)
(* Units (see the header).                                                 *)
(***************************************************************************)
DistUnit == 2 * 100      \* distance units per world unit
YUnit == 3 * 100         \* y units per world unit
XUnit == 2 * 5           \* x units per world unit
FrameRate == 3 * 10      \* frames per second

(***************************************************************************)
(* Bounds of the model.                                                    *)
(***************************************************************************)
MaxFineTicks == 3        \* ticks with a delta between a frame and a few seconds
MaxFineDistance == 3100  \* such ticks are taken in a session's first world units
MaxDistance == 40000     \* world units a session may travel
MaxTime == 12000         \* frames the game's timer may run
Stall == 100 * FrameRate   \* frames of the longest delta: 100 s, a stalled tab
CounterCap == 3          \* the observation counters saturate here

(***************************************************************************)
(* Constants of src/Obstacles.tsx.                                         *)
(***************************************************************************)
LEVEL_DISTANCE == 660 * DistUnit
FUNNEL_DISTANCE == 55 * DistUnit
SPAWN_INTERVAL == 5 * DistUnit
FUNNEL_SPAWN_INTERVAL == 2 * DistUnit
LEVEL2_LOW_Y == (15 * YUnit) \div 10
LEVEL2_HIGH_Y == 5 * YUnit
LEVEL2_SPAWN_INTERVAL == 3 * DistUnit
LEVEL2_DISTANCE == 1500 * DistUnit
LEVEL2_FUNNEL_DISTANCE == 55 * DistUnit
LEVEL2_FUNNEL_SPAWN_INTERVAL == (15 * DistUnit) \div 10
OBSTACLE_GROUND_Y == (5 * YUnit) \div 10
OBSTACLE_HIGH_Y == 3 * YUnit
ProgressUnit == 55 * DistUnit    \* funnelProgress units per 1.0

(***************************************************************************)
(* src/Obstacles.tsx: the engine.  Marker colours are not modelled.        *)
(***************************************************************************)
createObstacleState ==
    [ level |-> 1,
      phase |-> "normal",
      phaseStartDistance |-> 0,
      nextSpawnDistance |-> 15 * DistUnit,
      distance |-> 0,
      funnelProgress |-> 0,
      majorLevel |-> 1,
      level2Distance |-> 0 ]

\* a variant of getLevelSpeed without the cap
getLevelSpeedUncapped(level) == 50 + (level - 1) * 30

getLevelSpeed(level) == Min(300, 50 + (level - 1) * 30)

\* getLevel1Progress (src/Obstacles.tsx:199-205), in units of
\* 1 / (6 * LEVEL_DISTANCE): phaseProgress is counted in units of
\* 1 / LEVEL_DISTANCE, and LEVEL_DISTANCE is 12 funnel lengths.
Level1ProgressUnit == 6 * LEVEL_DISTANCE

\* a variant of getLevel1Progress without the test of majorLevel
getLevel1ProgressAnyMajorLevel(state) ==
    LET phaseDistance == state.distance - state.phaseStartDistance
        phaseProgress ==
            IF state.phase = "normal"
            THEN Min(LEVEL_DISTANCE, phaseDistance)
            ELSE Min(LEVEL_DISTANCE,
                     phaseDistance * (LEVEL_DISTANCE \div FUNNEL_DISTANCE))
    IN  Min(Level1ProgressUnit,
            (state.level - 1) * LEVEL_DISTANCE + phaseProgress)

getLevel1Progress(state) ==
    IF state.majorLevel # 1
    THEN Level1ProgressUnit
    ELSE LET phaseDistance == state.distance - state.phaseStartDistance
             phaseProgress ==
                 IF state.phase = "normal"
                 THEN Min(LEVEL_DISTANCE, phaseDistance)
                 ELSE Min(LEVEL_DISTANCE,
                          phaseDistance * (LEVEL_DISTANCE \div FUNNEL_DISTANCE))
         IN  Min(Level1ProgressUnit,
                 (state.level - 1) * LEVEL_DISTANCE + phaseProgress)

\* a variant of createObstacle that makes every marker high-tier
createObstacleHigh(id, x, high, yOverride) ==
    [ id |-> id,
      x |-> x,
      y |-> IF yOverride # <<>> THEN yOverride[1] ELSE OBSTACLE_HIGH_Y,
      z |-> (-40) * DistUnit,
      passed |-> FALSE,
      high |-> TRUE ]

\* yOverride is <<>> for undefined and <<y>> for a given height.
createObstacle(id, x, high, yOverride) ==
    [ id |-> id,
      x |-> x,
      y |-> IF yOverride # <<>> THEN yOverride[1]
            ELSE IF high THEN OBSTACLE_HIGH_Y ELSE OBSTACLE_GROUND_Y,
      z |-> (-40) * DistUnit,
      passed |-> FALSE,
      high |-> high ]

FULL_WIDTH == 8 * XUnit
MIN_GAP == (24 * XUnit) \div 10
cubeSpacing == (15 * XUnit) \div 10

\* a variant of gapHalf that narrows to MIN_GAP instead of MIN_GAP / 2
gapHalfToMinGap(progress) ==
    FULL_WIDTH * ProgressUnit - progress * (FULL_WIDTH - MIN_GAP)

\* a variant of gapHalf that closes the gap at progress 1
gapHalfClosing(progress) ==
    FULL_WIDTH * ProgressUnit - progress * FULL_WIDTH

\* gapHalf = FULL_WIDTH - progress * (FULL_WIDTH - MIN_GAP / 2), times ProgressUnit
gapHalf(progress) ==
    FULL_WIDTH * ProgressUnit - progress * (FULL_WIDTH - MIN_GAP \div 2)

\* the test of the wall loops: x < -gapHalf || x > gapHalf
outsideGap(x, progress) ==
    \/ x * ProgressUnit < - gapHalf(progress)
    \/ x * ProgressUnit > gapHalf(progress)

RECURSIVE funnelWallLoop(_, _, _)
funnelWallLoop(x, target, progress) ==
    IF x > FULL_WIDTH THEN target
    ELSE funnelWallLoop(
            x + cubeSpacing,
            IF outsideGap(x, progress)
              THEN Append(target, x)
              ELSE target,
            progress)

\* the lateral positions at which one wall row puts markers, in loop order
wallPositions(progress) == funnelWallLoop(-FULL_WIDTH, <<>>, progress)

\* a variant of spawnFunnelWalls that catches up with a second, identical row
spawnFunnelWallsTwice(target, progress, firstId) ==
    LET xs == wallPositions(progress)
    IN  target \o [k \in 1..(2 * Len(xs)) |->
                     createObstacle(firstId + k - 1, xs[((k - 1) % Len(xs)) + 1],
                                    FALSE, <<>>)]

spawnFunnelWalls(target, progress, firstId) ==
    LET xs == wallPositions(progress)
    IN  target \o [k \in 1..Len(xs) |->
                     createObstacle(firstId + k - 1, xs[k], FALSE, <<>>)]

\* spawnLevel2FunnelWalls computes its own gapHalf, from its own FULL_WIDTH = 8
\* and MIN_GAP = 2.4 (src/Obstacles.tsx:279-281), and runs its own loop over
\* x = -8, -6.5, ... (lines 283-288)
level2GapHalf(progress) ==
    8 * XUnit * ProgressUnit
        - progress * (8 * XUnit - ((24 * XUnit) \div 10) \div 2)

level2OutsideGap(x, progress) ==
    \/ x * ProgressUnit < - level2GapHalf(progress)
    \/ x * ProgressUnit > level2GapHalf(progress)

RECURSIVE level2WallLoop(_, _, _)
level2WallLoop(x, target, progress) ==
    IF x > 8 * XUnit THEN target
    ELSE level2WallLoop(
            x + (15 * XUnit) \div 10,
            IF level2OutsideGap(x, progress)
              THEN Append(target, x)
              ELSE target,
            progress)

level2WallPositions(progress) == level2WallLoop(-8 * XUnit, <<>>, progress)

spawnLevel2FunnelWalls(target, progress, firstId) ==
    LET xs == level2WallPositions(progress)
    IN  target \o [k \in 1..(2 * Len(xs)) |->
                     createObstacle(firstId + k - 1, xs[(k + 1) \div 2], FALSE,
                                    IF k % 2 = 1 THEN <<LEVEL2_LOW_Y>>
                                                 ELSE <<LEVEL2_HIGH_Y>>)]

\* a variant of advance that assigns the tick's travel instead of adding it
advanceAssigning(state, distanceDelta) ==
    [state EXCEPT !.distance = distanceDelta]

\* newState.distance = state.distance + distanceDelta
advance(state, distanceDelta) ==
    [state EXCEPT !.distance = state.distance + distanceDelta]

\* newState.funnelProgress = phaseDistance / funnelDistance
withProgress(state, moved, funnelDistance) ==
    [moved EXCEPT !.funnelProgress =
        (moved.distance - state.phaseStartDistance) * (ProgressUnit \div funnelDistance)]

\* a variant of level2Complete that needs more than LEVEL2_DISTANCE
level2CompleteStrict(level2Distance) == level2Distance > LEVEL2_DISTANCE

\* line 307: the Normal phase of major level 2 ends at this level2Distance
level2Complete(level2Distance) == level2Distance >= LEVEL2_DISTANCE

\* major level 2, Normal phase (src/Obstacles.tsx:306-317); moved is newState
\* after the distance update.  rnd.x is (Math.random() - 0.5) * 16 and rnd.low
\* is Math.random() < 0.5.
level2Normal(state, moved, obstacles, rnd, firstId) ==
    IF level2Complete(moved.level2Distance) THEN
        [ obstacles |-> obstacles,
          newState |-> [moved EXCEPT !.phase = "funnel",
                                     !.phaseStartDistance = moved.distance,
                                     !.funnelProgress = 0,
                                     !.nextSpawnDistance = moved.distance],
          newSpeed |-> 200 ]
    ELSE IF moved.distance >= state.nextSpawnDistance THEN
        [ obstacles |-> Append(obstacles,
              createObstacle(firstId, rnd.x, FALSE,
                  IF rnd.low THEN <<LEVEL2_LOW_Y>> ELSE <<LEVEL2_HIGH_Y>>)),
          newState |-> [moved EXCEPT !.nextSpawnDistance =
                            moved.distance + LEVEL2_SPAWN_INTERVAL],
          newSpeed |-> 200 ]
    ELSE [ obstacles |-> obstacles, newState |-> moved, newSpeed |-> 200 ]

\* major level 2, Funnel phase (src/Obstacles.tsx:318-327); inFunnel is newState
\* after the distance and funnelProgress updates.
level2Funnel(state, inFunnel, obstacles, firstId) ==
    IF inFunnel.distance - state.phaseStartDistance >= LEVEL2_FUNNEL_DISTANCE THEN
        [ obstacles |-> obstacles,
          newState |-> [inFunnel EXCEPT !.majorLevel = 3],
          newSpeed |-> 200 ]
    ELSE IF inFunnel.distance >= state.nextSpawnDistance THEN
        [ obstacles |-> spawnLevel2FunnelWalls(obstacles,
                            inFunnel.funnelProgress, firstId),
          newState |-> [inFunnel EXCEPT !.nextSpawnDistance =
                            inFunnel.distance + LEVEL2_FUNNEL_SPAWN_INTERVAL],
          newSpeed |-> 200 ]
    ELSE [ obstacles |-> obstacles, newState |-> inFunnel, newSpeed |-> 200 ]

\* newState after lines 300-302
level2Moved(state, distanceDelta) ==
    [advance(state, distanceDelta) EXCEPT
        !.level2Distance = state.level2Distance + distanceDelta]

spawnLevel2Obstacles(state, obstacles, distanceDelta, rnd, firstId) ==
    IF state.phase = "normal"
      THEN level2Normal(state, level2Moved(state, distanceDelta),
                        obstacles, rnd, firstId)
      ELSE level2Funnel(state,
                        withProgress(state, level2Moved(state, distanceDelta),
                                     LEVEL2_FUNNEL_DISTANCE),
                        obstacles, firstId)

\* a variant of rampedSpeed without the bound
rampedSpeedUnbounded(level, currentSpeed) == currentSpeed + 1

\* line 371: newSpeed = Math.min(getLevelSpeed(state.level) + 0.5, currentSpeed + 0.01)
rampedSpeed(level, currentSpeed) ==
    Min(getLevelSpeed(level) + 50, currentSpeed + 1)

\* a variant of firstWallDistance that puts the first row a spawn interval on
firstWallDistanceDelayed(distance) == distance + FUNNEL_SPAWN_INTERVAL

\* line 365: nextSpawnDistance at the start of a funnel
firstWallDistance(distance) == distance

\* a variant of levelComplete that an overshot threshold does not satisfy
levelCompleteExact(phaseDistance) == phaseDistance = LEVEL_DISTANCE

\* a variant of levelComplete that needs more than LEVEL_DISTANCE
levelCompleteStrict(phaseDistance) == phaseDistance > LEVEL_DISTANCE

\* line 361: the Normal phase of a level ends at this phaseDistance
levelComplete(phaseDistance) == phaseDistance >= LEVEL_DISTANCE

\* a variant of normalSpawnDue that waits until the threshold is passed
normalSpawnDueStrict(distance, nextSpawnDistance) == distance > nextSpawnDistance

\* line 366: a Normal-phase spawn is due at this post-advance distance
normalSpawnDue(distance, nextSpawnDistance) == distance >= nextSpawnDistance

\* a variant of level1Normal whose phase change leaves nextSpawnDistance as
\* it was
level1NormalStaleThreshold(state, moved, currentSpeed, rnd, firstId) ==
    IF levelComplete(moved.distance - state.phaseStartDistance) THEN
        [ obstacles |-> <<>>,
          newState |-> [moved EXCEPT !.phase = "funnel",
                                     !.phaseStartDistance = moved.distance,
                                     !.funnelProgress = 0],
          newSpeed |-> currentSpeed ]
    ELSE IF normalSpawnDue(moved.distance, state.nextSpawnDistance) THEN
        [ obstacles |-> << createObstacle(firstId, rnd.x, FALSE, <<>>) >>,
          newState |-> [moved EXCEPT !.nextSpawnDistance =
                            moved.distance + SPAWN_INTERVAL + rnd.jitter],
          newSpeed |-> Min(getLevelSpeed(state.level) + 50, currentSpeed + 1) ]
    ELSE [ obstacles |-> <<>>, newState |-> moved, newSpeed |-> currentSpeed ]

\* major level 1, Normal phase (src/Obstacles.tsx:360-372); rnd.jitter is
\* Math.random() * SPAWN_INTERVAL
level1Normal(state, moved, currentSpeed, rnd, firstId) ==
    IF levelComplete(moved.distance - state.phaseStartDistance) THEN
        [ obstacles |-> <<>>,
          newState |-> [moved EXCEPT !.phase = "funnel",
                                     !.phaseStartDistance = moved.distance,
                                     !.funnelProgress = 0,
                                     !.nextSpawnDistance =
                                         firstWallDistance(moved.distance)],
          newSpeed |-> currentSpeed ]
    ELSE IF normalSpawnDue(moved.distance, state.nextSpawnDistance) THEN
        [ obstacles |-> << createObstacle(firstId, rnd.x, FALSE, <<>>) >>,
          newState |-> [moved EXCEPT !.nextSpawnDistance =
                            moved.distance + SPAWN_INTERVAL + rnd.jitter],
          newSpeed |-> rampedSpeed(state.level, currentSpeed) ]
    ELSE [ obstacles |-> <<>>, newState |-> moved, newSpeed |-> currentSpeed ]

\* a variant of pastLastLevel that already counts level 6 as past the last
pastLastLevelEarly(level) == level >= 6

\* line 383: the new level is beyond the six levels of major level 1
pastLastLevel(level) == level > 6

\* the end of a funnel (src/Obstacles.tsx:376-391); levelled is newState after
\* lines 376-380
levelUp(levelled) ==
    IF pastLastLevel(levelled.level) THEN
        [ obstacles |-> <<>>,
          newState |-> [levelled EXCEPT
                          !.majorLevel = 2,
                          !.level2Distance = 0,
                          !.phase = "normal",
                          !.phaseStartDistance = levelled.distance,
                          !.nextSpawnDistance =
                              levelled.distance + LEVEL2_SPAWN_INTERVAL,
                          !.funnelProgress = 0],
          newSpeed |-> 200 ]
    ELSE
        [ obstacles |-> <<>>,
          newState |-> levelled,
          newSpeed |-> getLevelSpeed(levelled.level) ]

\* a variant of funnelComplete that needs more than FUNNEL_DISTANCE
funnelCompleteStrict(phaseDistance) == phaseDistance > FUNNEL_DISTANCE

\* line 375: the Funnel phase of a level ends at this phaseDistance
funnelComplete(phaseDistance) == phaseDistance >= FUNNEL_DISTANCE

\* line 392: a wall row is due in the Funnel phase
funnelSpawnDue(distance, nextSpawnDistance) == distance >= nextSpawnDistance

\* major level 1, Funnel phase (src/Obstacles.tsx:373-396)
level1Funnel(state, inFunnel, currentSpeed, firstId) ==
    IF funnelComplete(inFunnel.distance - state.phaseStartDistance) THEN
        levelUp([inFunnel EXCEPT !.level = state.level + 1,
                                 !.phase = "normal",
                                 !.phaseStartDistance = inFunnel.distance,
                                 !.funnelProgress = 0,
                                 !.nextSpawnDistance =
                                     inFunnel.distance + SPAWN_INTERVAL])
    ELSE IF funnelSpawnDue(inFunnel.distance, state.nextSpawnDistance) THEN
        [ obstacles |-> spawnFunnelWalls(<<>>, inFunnel.funnelProgress, firstId),
          newState |-> [inFunnel EXCEPT !.nextSpawnDistance =
                            inFunnel.distance + FUNNEL_SPAWN_INTERVAL],
          newSpeed |-> currentSpeed ]
    ELSE [ obstacles |-> <<>>, newState |-> inFunnel, newSpeed |-> currentSpeed ]

\* the major-level-1 branch of spawnObstacles (src/Obstacles.tsx:351-398)
spawnLevel1Obstacles(state, distanceDelta, currentSpeed, rnd, firstId) ==
    IF state.phase = "normal"
      THEN level1Normal(state, advance(state, distanceDelta),
                        currentSpeed, rnd, firstId)
      ELSE level1Funnel(state,
                        withProgress(state, advance(state, distanceDelta),
                                     FUNNEL_DISTANCE),
                        currentSpeed, firstId)

\* distanceDelta = delta * currentSpeed * 15
distanceDelta(delta, currentSpeed) == delta * currentSpeed

spawnObstacles(state, delta, currentSpeed, rnd, firstId) ==
    IF state.majorLevel = 2
      THEN spawnLevel2Obstacles(state, <<>>, distanceDelta(delta, currentSpeed),
                                rnd, firstId)
      ELSE spawnLevel1Obstacles(state, distanceDelta(delta, currentSpeed),
                                currentSpeed, rnd, firstId)

(***************************************************************************)
(* updateObstacles: the reverse loop over the live list, with splice.  acc *)
(* carries the list as mutated so far, the scene, the collision flag, the  *)
(* onScore calls made and the markers removed.                             *)
(***************************************************************************)
RemoveAt(s, i) == [k \in 1..(Len(s) - 1) |-> IF k < i THEN s[k] ELSE s[k + 1]]

\* a variant of scoresNow that does not look at the passed flag
scoresNowIgnoringPassed(cube, z) == z > 4 * DistUnit

\* a variant of scoresNow that scores only markers still short of the camera
scoresNowInView(cube, z) ==
    (~cube.passed) /\ z > 4 * DistUnit /\ z <= 10 * DistUnit

\* line 424: the marker, at depth z after this tick's advance, is scored now
scoresNow(cube, z) == (~cube.passed) /\ z > 4 * DistUnit

\* a variant of scoreDelta that pays every tier alike
scoreDeltaFlat(cube) == 10

\* line 426: the argument of onScore
scoreDelta(cube) == IF cube.high THEN 20 ELSE 10

\* a variant of collides whose near depth bound is not strict
collidesFromTwo(cube, z, sx, sy) ==
    /\ z >= 2 * DistUnit
    /\ z < 4 * DistUnit
    /\ Abs(cube.x - sx) * 10 < 8 * XUnit
    /\ Abs(cube.y - sy) * 10 < 12 * YUnit

\* a variant of collides whose vertical bound is not strict
collidesVerticalInclusive(cube, z, sx, sy) ==
    /\ z > 2 * DistUnit
    /\ z < 4 * DistUnit
    /\ Abs(cube.x - sx) * 10 < 8 * XUnit
    /\ Abs(cube.y - sy) * 10 <= 12 * YUnit

\* lines 430-434: the marker, at depth z, collides with the ship at (sx, sy)
collides(cube, z, sx, sy) ==
    /\ z > 2 * DistUnit
    /\ z < 4 * DistUnit
    /\ Abs(cube.x - sx) * 10 < 8 * XUnit
    /\ Abs(cube.y - sy) * 10 < 12 * YUnit

\* a variant of pastCamera that lets markers run on to depth 100
pastCameraLate(z) == z > 100 * DistUnit

\* line 438: the marker, at depth z, is past the camera
pastCamera(z) == z > 10 * DistUnit

\* the marker after the loop body: advanced, and passed set when scored
advanced(cube, dz) ==
    [cube EXCEPT !.z = cube.z + dz,
                 !.passed = cube.passed \/ scoresNow(cube, cube.z + dz)]

\* one iteration of the loop of updateObstacles (lines 418-441), on cubes[i]
updateCube(acc, i, sx, sy, dz) ==
    [ cubes |-> IF pastCamera(acc.cubes[i].z + dz)
                  THEN RemoveAt(acc.cubes, i)
                  ELSE [acc.cubes EXCEPT ![i] = advanced(acc.cubes[i], dz)],
      scene |-> IF pastCamera(acc.cubes[i].z + dz)
                  THEN acc.scene \ {acc.cubes[i].id}
                  ELSE acc.scene,
      collision |-> acc.collision
                      \/ collides(acc.cubes[i], acc.cubes[i].z + dz, sx, sy),
      scores |-> IF scoresNow(acc.cubes[i], acc.cubes[i].z + dz)
                   THEN Append(acc.scores,
                               << acc.cubes[i].id, scoreDelta(acc.cubes[i]) >>)
                   ELSE acc.scores,
      culled |-> IF pastCamera(acc.cubes[i].z + dz)
                   THEN Append(acc.culled, advanced(acc.cubes[i], dz))
                   ELSE acc.culled ]

RECURSIVE updateLoop(_, _, _, _, _)
updateLoop(acc, i, sx, sy, dz) ==
    IF i < 1 THEN acc
    ELSE updateLoop(updateCube(acc, i, sx, sy, dz), i - 1, sx, sy, dz)

\* a variant of updateObstacles whose loop runs forward over the list it
\* splices
RECURSIVE updateLoopForward(_, _, _, _, _)
updateLoopForward(acc, i, sx, sy, dz) ==
    IF i > Len(acc.cubes) THEN acc
    ELSE updateLoopForward(updateCube(acc, i, sx, sy, dz), i + 1, sx, sy, dz)

updateObstaclesForward(sc, cs, sx, sy, delta, spd) ==
    updateLoopForward([cubes |-> cs, scene |-> sc, collision |-> FALSE,
                       scores |-> <<>>, culled |-> <<>>],
                      1, sx, sy, delta * spd)

updateObstacles(sc, cs, sx, sy, delta, spd) ==
    updateLoop([cubes |-> cs, scene |-> sc, collision |-> FALSE,
                scores |-> <<>>, culled |-> <<>>],
               Len(cs), sx, sy, delta * spd)

\* a variant of clearObstacles that empties the list and leaves the scene
clearObstaclesListOnly(sc, cs) ==
    [ scene |-> sc, cubes |-> <<>> ]

clearObstacles(sc, cs) ==
    [ scene |-> sc \ {cs[k].id : k \in 1..Len(cs)}, cubes |-> <<>> ]

RECURSIVE SumScores(_)
SumScores(s) == IF s = <<>> THEN 0 ELSE s[1][2] + SumScores(Tail(s))

Ids(s) == {s[k].id : k \in 1..Len(s)}

\* the onScore calls each marker has received so far: t maps a marker id to
\* their number, s is a tick's sequence of <<id, delta>> calls
RECURSIVE Tally(_, _)
Tally(t, s) ==
    IF s = <<>> THEN t
    ELSE Tally(IF s[1][1] \in DOMAIN t
                 THEN [t EXCEPT ![s[1][1]] = Min(t[s[1][1]] + 1, CounterCap)]
                 ELSE t @@ (s[1][1] :> 1),
               Tail(s))

(***************************************************************************)
(* src/Game.tsx, initializeGame.  The closure's variables travel through   *)
(* the handlers as one record g.  Ship physics (velocity, friction, the    *)
(* direction keys) is not modelled: the position a frame moves the ship to *)
(* is an input of the frame, clamped as the code clamps it.  Camera, ship  *)
(* rotation, lights and the celebration spin are presentation.             *)
(***************************************************************************)
VICTORY_DURATION == 5 * FrameRate
LEVEL_CLEAR_DURATION == 3 * FrameRate
GROUND_Y == (3 * YUnit) \div 10
LEVEL2_BASE_Y == 3 * YUnit

Sat(n) == Min(n + 1, CounterCap)

Cur ==
    [ cubes |-> cubes, speed |-> speed, scoreValue |-> scoreValue,
      isGameOver |-> isGameOver, isStarted |-> isStarted, isVictory |-> isVictory,
      isPaused |-> isPaused, victoryStartTime |-> victoryStartTime,
      obstacleState |-> obstacleState, majorLevel |-> majorLevel,
      isLevelClear |-> isLevelClear, levelClearStartTime |-> levelClearStartTime,
      currentLevel |-> currentLevel, shipX |-> shipX, shipY |-> shipY,
      scene |-> scene, nextId |-> nextId,
      gameOver |-> gameOver, victory |-> victory,
      lastObstacles |-> <<>>, lastCollision |-> FALSE, lastScores |-> <<>>,
      lastCulled |-> <<>>,
      victoryTriggers |-> victoryTriggers, onGameOverCalls |-> onGameOverCalls ]

Commit(g) ==
    /\ cubes' = g.cubes
    /\ speed' = g.speed
    /\ scoreValue' = g.scoreValue
    /\ isGameOver' = g.isGameOver
    /\ isStarted' = g.isStarted
    /\ isVictory' = g.isVictory
    /\ isPaused' = g.isPaused
    /\ victoryStartTime' = g.victoryStartTime
    /\ obstacleState' = g.obstacleState
    /\ majorLevel' = g.majorLevel
    /\ isLevelClear' = g.isLevelClear
    /\ levelClearStartTime' = g.levelClearStartTime
    /\ currentLevel' = g.currentLevel
    /\ shipX' = g.shipX
    /\ shipY' = g.shipY
    /\ scene' = g.scene
    /\ nextId' = g.nextId
    /\ gameOver' = g.gameOver
    /\ victory' = g.victory
    /\ lastObstacles' = g.lastObstacles
    /\ lastCollision' = g.lastCollision
    /\ lastScores' = g.lastScores
    /\ lastCulled' = g.lastCulled
    /\ victoryTriggers' = g.victoryTriggers
    /\ onGameOverCalls' = g.onGameOverCalls

handleLevelChange(g, t) ==
    LET cleared == clearObstacles(g.scene, g.cubes)
    IN  IF g.majorLevel = 1 /\ g.currentLevel > 6 THEN
            [g EXCEPT !.isLevelClear = TRUE,
                      !.levelClearStartTime = t,
                      !.cubes = cleared.cubes,
                      !.scene = cleared.scene]
        ELSE IF /\ g.majorLevel = 2
                /\ g.obstacleState # Null
                /\ g.obstacleState.majorLevel = 3 THEN
            [g EXCEPT !.isVictory = TRUE,
                      !.victoryStartTime = t,
                      !.cubes = cleared.cubes,
                      !.scene = cleared.scene,
                      !.victoryTriggers = Sat(g.victoryTriggers)]
        ELSE g

updateLevelClear(g, delta, t) ==
    IF t - g.levelClearStartTime >= LEVEL_CLEAR_DURATION THEN
        [g EXCEPT !.isLevelClear = FALSE,
                  !.majorLevel = 2,
                  !.obstacleState = [createObstacleState EXCEPT !.majorLevel = 2],
                  !.speed = 200,
                  !.currentLevel = 7,
                  !.shipY = LEVEL2_BASE_Y]
    ELSE g

updateLevel1Camera(g, delta) == [g EXCEPT !.shipY = GROUND_Y]

\* toY is ship.position.y + verticalVelocity * delta, before the clamp
updateLevel2Flight(g, delta, toY) ==
    [g EXCEPT !.shipY = IF delta = 0 THEN g.shipY
                        ELSE Max((5 * YUnit) \div 10, Min(6 * YUnit, toY))]

\* lines 505-507: the host adopts the result of spawnObstacles
adoptSpawn(g, result) ==
    [g EXCEPT !.cubes = g.cubes \o result.obstacles,
              !.scene = g.scene \cup Ids(result.obstacles),
              !.nextId = g.nextId + Len(result.obstacles),
              !.lastObstacles = result.obstacles,
              !.obstacleState = result.newState,
              !.speed = result.newSpeed]

\* lines 509-514: the level-change checks
checkLevelChange(g, t) ==
    IF g.majorLevel = 1 /\ g.obstacleState.level # g.currentLevel THEN
        handleLevelChange([g EXCEPT !.currentLevel = g.obstacleState.level], t)
    ELSE IF g.majorLevel = 2 /\ g.obstacleState.majorLevel = 3 THEN
        handleLevelChange(g, t)
    ELSE g

updateObstacleSpawning(g, t, delta, rnd) ==
    IF g.obstacleState = Null THEN g
    ELSE checkLevelChange(
            adoptSpawn(g, spawnObstacles(g.obstacleState, delta, g.speed,
                                         rnd, g.nextId)),
            t)

\* lines 522-529; toX is ship.position.x + velocity * delta, before the clamp
moveShip(g, delta, toX) ==
    [g EXCEPT !.shipX = IF delta = 0 THEN g.shipX
                        ELSE Max(-8 * XUnit, Min(8 * XUnit, toX))]

\* lines 532-533
moveVertically(g, delta, toY) ==
    IF g.majorLevel = 1 THEN updateLevel1Camera(g, delta)
                        ELSE updateLevel2Flight(g, delta, toY)

\* a variant of adoptUpdate that reports a collision and does not end the run
adoptUpdateRunningOn(g, upd) ==
    [g EXCEPT !.cubes = upd.cubes,
              !.scene = upd.scene,
              !.scoreValue = g.scoreValue + SumScores(upd.scores),
              !.lastScores = upd.scores,
              !.lastCulled = upd.culled,
              !.lastCollision = upd.collision,
              !.gameOver = IF upd.collision THEN TRUE ELSE g.gameOver,
              !.onGameOverCalls = IF upd.collision THEN Sat(g.onGameOverCalls)
                                                   ELSE g.onGameOverCalls]

\* lines 543-550: the host adopts what updateObstacles did (upd) and ends the
\* run on a collision
adoptUpdate(g, upd) ==
    [g EXCEPT !.cubes = upd.cubes,
              !.scene = upd.scene,
              !.scoreValue = g.scoreValue + SumScores(upd.scores),
              !.lastScores = upd.scores,
              !.lastCulled = upd.culled,
              !.lastCollision = upd.collision,
              !.isGameOver = IF upd.collision THEN TRUE ELSE g.isGameOver,
              !.gameOver = IF upd.collision THEN TRUE ELSE g.gameOver,
              !.onGameOverCalls = IF upd.collision THEN Sat(g.onGameOverCalls)
                                                   ELSE g.onGameOverCalls]

checkCollisions(g, delta) ==
    adoptUpdate(g, updateObstacles(g.scene, g.cubes, g.shipX, g.shipY,
                                   delta, g.speed))

updateGameplay(g, delta, t, in) ==
    checkCollisions(
        updateObstacleSpawning(
            moveVertically(moveShip(g, delta, in.toX), delta, in.toY),
            t, delta, in.rnd),
        delta)

\* ship.position.y += delta * (2 + victoryProgress * 15)
updateVictoryAnimation(g, delta, t) ==
    IF t - g.victoryStartTime >= VICTORY_DURATION
      THEN [g EXCEPT !.victory = TRUE]
      ELSE [g EXCEPT !.shipY = g.shipY + delta * (20 + (t - g.victoryStartTime))]

\* line 589
victoryStep(g, delta, t) ==
    IF g.isVictory THEN updateVictoryAnimation(g, delta, t) ELSE g

\* a variant of animate that runs the gameplay of a paused run
animateIgnoringPause(g, delta, t, in) ==
    victoryStep(
        IF g.isLevelClear THEN updateLevelClear(g, delta, t)
        ELSE IF g.isStarted /\ ~g.isGameOver
               THEN updateGameplay(g, delta, t, in)
               ELSE g,
        delta, t)

animate(g, delta, t, in) ==
    victoryStep(
        IF g.isLevelClear THEN updateLevelClear(g, delta, t)
        ELSE IF g.isStarted /\ ~g.isGameOver /\ ~g.isPaused
               THEN updateGameplay(g, delta, t, in)
               ELSE g,
        delta, t)

\* lines 620-645: the level set-up of start()
startLevel(g) ==
    IF g.majorLevel = 2 THEN
        [g EXCEPT !.shipY = LEVEL2_BASE_Y,
                  !.obstacleState = [createObstacleState EXCEPT !.majorLevel = 2],
                  !.speed = 200,
                  !.currentLevel = 7]
    ELSE
        [g EXCEPT !.shipY = GROUND_Y,
                  !.obstacleState = createObstacleState,
                  !.speed = getLevelSpeed(1),
                  !.currentLevel = 1]

start(g) ==
    startLevel([g EXCEPT !.cubes = clearObstacles(g.scene, g.cubes).cubes,
                         !.scene = clearObstacles(g.scene, g.cubes).scene,
                         !.isStarted = TRUE,
                         !.isGameOver = FALSE,
                         !.isPaused = FALSE,
                         !.isVictory = FALSE,
                         !.isLevelClear = FALSE,
                         !.scoreValue = 0,
                         !.shipX = 0,
                         !.majorLevel = 2])

(***************************************************************************)
(* Inputs.  A frame's inputs are enumerated only where the frame reads     *)
(* them: the ship's target when the gameplay branch runs with delta > 0,   *)
(* Math.random()'s values when spawnObstacles runs.                        *)
(***************************************************************************)
FineDeltas == {1, 42}            \* a frame, and 1.4 s
Deltas == {0, Stall} \cup FineDeltas
RandomXs == {-8 * XUnit, 0}      \* (Math.random() - 0.5) * 16, in [-8, 8)
Jitters == {0, SPAWN_INTERVAL - 1}   \* Math.random() * SPAWN_INTERVAL, in [0, 5)
NoRnd == [x |-> 0, jitter |-> 0, low |-> TRUE]
RndsFor(state) ==
    IF state = Null THEN {NoRnd}
    ELSE IF state.majorLevel = 2 THEN [x : RandomXs, jitter : {0}, low : BOOLEAN]
    ELSE [x : RandomXs, jitter : Jitters, low : {TRUE}]
ShipTargetXs == {0, (8 * XUnit) \div 10}
ShipTargetYs == {(38 * YUnit) \div 10, 7 * YUnit}

Plays == (~isLevelClear) /\ isStarted /\ (~isGameOver) /\ (~isPaused)

FrameInputs(delta) ==
    IF Plays
      THEN [ toX : IF delta = 0 THEN {shipX} ELSE ShipTargetXs,
             toY : IF delta = 0 THEN {shipY} ELSE ShipTargetYs,
             rnd : RndsFor(obstacleState) ]
      ELSE { [toX |-> shipX, toY |-> shipY, rnd |-> NoRnd] }

FineAllowed ==
    /\ fineTicks < MaxFineTicks
    /\ obstacleState # Null
    /\ obstacleState.distance <= MaxFineDistance * DistUnit

(***************************************************************************)
(* The game session: state after initializeGame, and its operations.       *)
(***************************************************************************)
Init ==
    /\ cubes = <<>>
    /\ speed = 0
    /\ scoreValue = 0
    /\ isGameOver = FALSE
    /\ isStarted = FALSE
    /\ isVictory = FALSE
    /\ isPaused = FALSE
    /\ victoryStartTime = 0
    /\ obstacleState = Null
    /\ majorLevel = 2
    /\ isLevelClear = FALSE
    /\ levelClearStartTime = 0
    /\ currentLevel = 1
    /\ shipX = 0
    /\ shipY = GROUND_Y
    /\ time = 0
    /\ animating = TRUE
    /\ listening = TRUE
    /\ scene = {}
    /\ nextId = 1
    /\ started = FALSE
    /\ gameOver = FALSE
    /\ victory = FALSE
    /\ score = 0
    /\ highScore = 0
    /\ isNewHighScore = FALSE
    /\ effectDeps = << FALSE, FALSE, 0, 0 >>
    /\ lastOp = "init"
    /\ lastObstacles = <<>>
    /\ lastCollision = FALSE
    /\ lastScores = <<>>
    /\ lastCulled = <<>>
    /\ victoryTriggers = 0
    /\ onGameOverCalls = 0
    /\ timesScored = <<>>
    /\ fineTicks = 0

\* App's score after a frame: onScore (setScore) receives scoreValue on every
\* scoring, onVictory sets it to the final scoreValue (src/App.tsx:71-76)
shownScore(shown, scores, won, value) ==
    IF scores # <<>> \/ won THEN value ELSE shown

\* one animation frame (src/Game.tsx:578-593)
Frame ==
    /\ animating
    /\ \E delta \in Deltas :
         /\ time + delta <= MaxTime
         /\ delta \in FineDeltas => FineAllowed
         /\ obstacleState # Null =>
                obstacleState.distance + distanceDelta(delta, speed)
                    <= MaxDistance * DistUnit
         /\ \E in \in FrameInputs(delta) :
                Commit(animate(Cur, delta, time + delta, in))
         /\ time' = time + delta
         /\ fineTicks' = IF delta \in FineDeltas THEN fineTicks + 1 ELSE fineTicks
    /\ timesScored' = Tally(timesScored, lastScores')
    /\ score' = shownScore(score, lastScores', victory', scoreValue')
    /\ lastOp' = "frame"
    /\ UNCHANGED << animating, listening, started,
                    highScore, isNewHighScore, effectDeps >>

\* App.handleStart / Enter (src/App.tsx:43-59, 93-101) calling start()
Start ==
    /\ (~started) \/ gameOver \/ victory
    /\ started' = TRUE
    /\ Commit([start(Cur) EXCEPT !.gameOver = FALSE, !.victory = FALSE,
                                 !.victoryTriggers = 0, !.onGameOverCalls = 0])
    /\ score' = 0
    /\ isNewHighScore' = FALSE
    /\ lastOp' = "start"
    /\ UNCHANGED << time, animating, listening, timesScored, fineTicks,
                    highScore, effectDeps >>

\* the P key (src/Game.tsx:345-351)
KeyP ==
    /\ listening
    /\ isStarted /\ ~isGameOver /\ ~isVictory
    /\ isPaused' = ~isPaused
    /\ lastOp' = "keyP"
    /\ UNCHANGED << cubes, speed, scoreValue, isGameOver, isStarted, isVictory,
                    victoryStartTime, obstacleState, majorLevel, isLevelClear,
                    levelClearStartTime, currentLevel, shipX, shipY, time,
                    animating, listening, scene, nextId, started, gameOver, victory,
                    score, highScore, isNewHighScore, effectDeps,
                    lastObstacles, lastCollision, lastScores, lastCulled,
                    victoryTriggers, onGameOverCalls, timesScored, fineTicks >>

\* a variant of cleanup that removes the listeners and leaves the animation
\* frame requested
CleanupListenersOnly ==
    /\ listening' = FALSE
    /\ lastOp' = "cleanup"
    /\ UNCHANGED << cubes, speed, scoreValue, isGameOver, isStarted, isVictory,
                    isPaused, victoryStartTime, obstacleState, majorLevel,
                    isLevelClear, levelClearStartTime, currentLevel, shipX, shipY,
                    time, animating, scene, nextId, started, gameOver, victory,
                    score, highScore, isNewHighScore, effectDeps,
                    lastObstacles, lastCollision, lastScores, lastCulled,
                    victoryTriggers, onGameOverCalls, timesScored, fineTicks >>

\* cleanup() (src/Game.tsx:647-653)
Cleanup ==
    /\ animating' = FALSE
    /\ listening' = FALSE
    /\ lastOp' = "cleanup"
    /\ UNCHANGED << cubes, speed, scoreValue, isGameOver, isStarted, isVictory,
                    isPaused, victoryStartTime, obstacleState, majorLevel,
                    isLevelClear, levelClearStartTime, currentLevel, shipX, shipY,
                    time, scene, nextId, started, gameOver, victory,
                    score, highScore, isNewHighScore, effectDeps,
                    lastObstacles, lastCollision, lastScores, lastCulled,
                    victoryTriggers, onGameOverCalls, timesScored, fineTicks >>

Next == Frame \/ Start \/ KeyP \/ Cleanup

Spec == Init /\ [][Next]_vars

(***************************************************************************)
(* The same operations on a session of major level 1: the state the else   *)
(* branch of start()'s level set-up makes (src/Game.tsx:633-645), which is *)
(* the branch start() takes once line 620 reads majorLevel = 1 again.      *)
(***************************************************************************)
Level1SessionInit ==
    /\ cubes = <<>>
    /\ speed = getLevelSpeed(1)
    /\ scoreValue = 0
    /\ isGameOver = FALSE
    /\ isStarted = TRUE
    /\ isVictory = FALSE
    /\ isPaused = FALSE
    /\ victoryStartTime = 0
    /\ obstacleState = createObstacleState
    /\ majorLevel = 1
    /\ isLevelClear = FALSE
    /\ levelClearStartTime = 0
    /\ currentLevel = 1
    /\ shipX = 0
    /\ shipY = GROUND_Y
    /\ time = 0
    /\ animating = TRUE
    /\ listening = TRUE
    /\ scene = {}
    /\ nextId = 1
    /\ started = TRUE
    /\ gameOver = FALSE
    /\ victory = FALSE
    /\ score = 0
    /\ highScore = 0
    /\ isNewHighScore = FALSE
    /\ effectDeps = << FALSE, FALSE, 0, 0 >>
    /\ lastOp = "start"
    /\ lastObstacles = <<>>
    /\ lastCollision = FALSE
    /\ lastScores = <<>>
    /\ lastCulled = <<>>
    /\ victoryTriggers = 0
    /\ onGameOverCalls = 0
    /\ timesScored = <<>>
    /\ fineTicks = 0

\* frames, the P key and cleanup(); start() would leave major level 1
Level1SessionNext == Frame \/ KeyP \/ Cleanup

SpecLevel1Session == Level1SessionInit /\ [][Level1SessionNext]_vars

(***************************************************************************)
(* The game with either level set-up of start(): the session of major      *)
(* level 2 that start() makes now, and the session of major level 1 of the *)
(* else branch, played in frames without pause to their ends and started   *)
(* again from the end menu.                                                *)
(***************************************************************************)
SessionsInit == Init \/ Level1SessionInit

SessionsNext == Frame \/ Start

SpecSessions == SessionsInit /\ [][SessionsNext]_vars

(***************************************************************************)
(* A flight session: the game of major level 2 with the ship flown along   *)
(* the two ends, 2.7 and 3.8, of the band of heights between the marker    *)
(* rows, in either of its lanes.                                           *)
(***************************************************************************)
FlightTargetYs == {(27 * YUnit) \div 10, (38 * YUnit) \div 10}

FlightInputs(delta) ==
    IF Plays
      THEN [ toX : IF delta = 0 THEN {shipX} ELSE ShipTargetXs,
             toY : IF delta = 0 THEN {shipY} ELSE FlightTargetYs,
             rnd : RndsFor(obstacleState) ]
      ELSE { [toX |-> shipX, toY |-> shipY, rnd |-> NoRnd] }

\* one animation frame (src/Game.tsx:578-593)
FlightFrame ==
    /\ animating
    /\ \E delta \in Deltas :
         /\ time + delta <= MaxTime
         /\ delta \in FineDeltas => FineAllowed
         /\ obstacleState # Null =>
                obstacleState.distance + distanceDelta(delta, speed)
                    <= MaxDistance * DistUnit
         /\ \E in \in FlightInputs(delta) :
                Commit(animate(Cur, delta, time + delta, in))
         /\ time' = time + delta
         /\ fineTicks' = IF delta \in FineDeltas THEN fineTicks + 1 ELSE fineTicks
    /\ timesScored' = Tally(timesScored, lastScores')
    /\ score' = shownScore(score, lastScores', victory', scoreValue')
    /\ lastOp' = "frame"
    /\ UNCHANGED << animating, listening, started,
                    highScore, isNewHighScore, effectDeps >>

FlightNext == FlightFrame \/ Start

SpecFlight == Init /\ [][FlightNext]_vars

(***************************************************************************)
(* A long session: the game left running in stalled frames of 100 s, to    *)
(* the end of major level 2 and on for as long again as the frames keep    *)
(* arriving, and in frames of gameplay length once the engine's state is   *)
(* back in major level 2 after the victory.                                *)
(***************************************************************************)
MaxLongTime == 45000     \* frames the timer of a long session may run

LateFineAllowed ==
    /\ fineTicks < MaxFineTicks
    /\ isVictory
    /\ obstacleState.majorLevel = 2

\* one animation frame (src/Game.tsx:578-593)
LongFrame ==
    /\ animating
    /\ \E delta \in {Stall} \cup FineDeltas :
         /\ time + delta <= MaxLongTime
         /\ delta \in FineDeltas => LateFineAllowed
         /\ \E in \in FrameInputs(delta) :
                Commit(animate(Cur, delta, time + delta, in))
         /\ time' = time + delta
         /\ fineTicks' = IF delta \in FineDeltas THEN fineTicks + 1 ELSE fineTicks
    /\ timesScored' = Tally(timesScored, lastScores')
    /\ score' = shownScore(score, lastScores', victory', scoreValue')
    /\ lastOp' = "frame"
    /\ UNCHANGED << animating, listening, started,
                    highScore, isNewHighScore, effectDeps >>

LongSessionNext == LongFrame \/ Start

SpecLongSession == Init /\ [][LongSessionNext]_vars

(***************************************************************************)
(* The App around the game (src/App.tsx): handleStart, the callbacks it    *)
(* gives to initializeGame, and its high-score effect.  The game is seen   *)
(* through its callbacks: a scoring (scoreValue += 10, onScore), a         *)
(* collision (isGameOver, onGameOver) and the end of the victory animation *)
(* (onVictory) arrive in any order a started run allows.  The effect runs  *)
(* after a render in which one of its dependencies has changed.            *)
(***************************************************************************)
MaxScoreCalls == 3       \* onScore calls of a run

\* src/Game.tsx:543-546 and App's onScore (setScore)
OnScore ==
    /\ started /\ ~gameOver /\ ~victory
    /\ scoreValue < 10 * MaxScoreCalls
    /\ scoreValue' = scoreValue + 10
    /\ score' = scoreValue'
    /\ lastOp' = "onScore"
    /\ UNCHANGED << cubes, speed, isGameOver, isStarted, isVictory, isPaused,
                    victoryStartTime, obstacleState, majorLevel, isLevelClear,
                    levelClearStartTime, currentLevel, shipX, shipY, time,
                    animating, listening, scene, nextId, started, gameOver, victory,
                    highScore, isNewHighScore, effectDeps,
                    lastObstacles, lastCollision, lastScores, lastCulled,
                    victoryTriggers, onGameOverCalls, timesScored, fineTicks >>

\* src/Game.tsx:547-550 and App's onGameOver (setGameOver(true))
OnGameOver ==
    /\ started /\ ~gameOver /\ ~victory
    /\ isGameOver' = TRUE
    /\ gameOver' = TRUE
    /\ onGameOverCalls' = Sat(onGameOverCalls)
    /\ lastOp' = "onGameOver"
    /\ UNCHANGED << cubes, speed, scoreValue, isStarted, isVictory, isPaused,
                    victoryStartTime, obstacleState, majorLevel, isLevelClear,
                    levelClearStartTime, currentLevel, shipX, shipY, time,
                    animating, listening, scene, nextId, started, victory,
                    score, highScore, isNewHighScore, effectDeps,
                    lastObstacles, lastCollision, lastScores, lastCulled,
                    victoryTriggers, timesScored, fineTicks >>

\* src/Game.tsx:556-559 and App's onVictory (setScore(finalScore),
\* setVictory(true))
OnVictory ==
    /\ started /\ ~gameOver /\ ~victory
    /\ isVictory' = TRUE
    /\ victory' = TRUE
    /\ score' = scoreValue
    /\ lastOp' = "onVictory"
    /\ UNCHANGED << cubes, speed, scoreValue, isGameOver, isStarted, isPaused,
                    victoryStartTime, obstacleState, majorLevel, isLevelClear,
                    levelClearStartTime, currentLevel, shipX, shipY, time,
                    animating, listening, scene, nextId, started, gameOver,
                    highScore, isNewHighScore, effectDeps,
                    lastObstacles, lastCollision, lastScores, lastCulled,
                    victoryTriggers, onGameOverCalls, timesScored, fineTicks >>

\* the body of the effect (src/App.tsx:119-125) on the values of its render
highScoreEffect(over, won, shown, high, isNew) ==
    IF ~over /\ ~won THEN [ highScore |-> high, isNewHighScore |-> isNew ]
    ELSE IF shown > high THEN [ highScore |-> shown, isNewHighScore |-> TRUE ]
    ELSE [ highScore |-> high, isNewHighScore |-> FALSE ]

\* one run of the effect (src/App.tsx:118-126)
HighScoreEffect ==
    /\ effectDeps # << gameOver, victory, score, highScore >>
    /\ effectDeps' = << gameOver, victory, score, highScore >>
    /\ highScore' =
          highScoreEffect(gameOver, victory, score, highScore,
                          isNewHighScore).highScore
    /\ isNewHighScore' =
          highScoreEffect(gameOver, victory, score, highScore,
                          isNewHighScore).isNewHighScore
    /\ lastOp' = "effect"
    /\ UNCHANGED << cubes, speed, scoreValue, isGameOver, isStarted, isVictory,
                    isPaused, victoryStartTime, obstacleState, majorLevel,
                    isLevelClear, levelClearStartTime, currentLevel, shipX, shipY,
                    time, animating, listening, scene, nextId, started, gameOver,
                    victory, score,
                    lastObstacles, lastCollision, lastScores, lastCulled,
                    victoryTriggers, onGameOverCalls, timesScored, fineTicks >>

AppNext == Start \/ OnScore \/ OnGameOver \/ OnVictory \/ HighScoreEffect

SpecApp == Init /\ [][AppNext]_vars

(***************************************************************************)
(* A spawner session: spawnObstacles called tick after tick from           *)
(* createObstacleState, the caller threading state and speed and appending *)
(* the returned markers to its live list, as the preview                   *)
(* (src/Obstacles.tsx:36-37, 95-110) and the game do.  The host variables  *)
(* stay as initializeGame left them.                                       *)
(***************************************************************************)
SecondDelta == {FrameRate}                \* 1 s
LevelDelta == {88 * FrameRate}            \* 88 s: 660 world units at speed 0.5
\* 55 frames: 55 world units at speed 2.0; 220 frames: 55 at speed 0.5;
\* 1500 frames: 1500 at speed 2.0
ThresholdDeltas == {55, 220, 1500}
SpawnFineDeltas == SecondDelta \cup LevelDelta \cup ThresholdDeltas
SpawnDeltas == {0, Stall} \cup SpawnFineDeltas

InitHostIdle ==
    /\ scoreValue = 0
    /\ isGameOver = FALSE
    /\ isStarted = FALSE
    /\ isVictory = FALSE
    /\ isPaused = FALSE
    /\ victoryStartTime = 0
    /\ majorLevel = 2
    /\ isLevelClear = FALSE
    /\ levelClearStartTime = 0
    /\ currentLevel = 1
    /\ shipX = 0
    /\ shipY = GROUND_Y
    /\ time = 0
    /\ animating = TRUE
    /\ listening = TRUE
    /\ scene = {}
    /\ nextId = 1
    /\ started = FALSE
    /\ gameOver = FALSE
    /\ victory = FALSE
    /\ score = 0
    /\ highScore = 0
    /\ isNewHighScore = FALSE
    /\ effectDeps = << FALSE, FALSE, 0, 0 >>
    /\ lastOp = "init"
    /\ lastObstacles = <<>>
    /\ lastCollision = FALSE
    /\ lastScores = <<>>
    /\ lastCulled = <<>>
    /\ victoryTriggers = 0
    /\ onGameOverCalls = 0
    /\ timesScored = <<>>
    /\ fineTicks = 0

\* the two ways the repository starts a session: the preview's
\* createObstacleState(0) with getLevelSpeed(1) (src/Obstacles.tsx:36-37), and
\* start()'s createObstacleState with majorLevel = 2 and speed 2.0
\* (src/Game.tsx:626-628)
EngineInit ==
    /\ cubes = <<>>
    /\ \/ /\ obstacleState = createObstacleState
          /\ speed = getLevelSpeed(1)
       \/ /\ obstacleState = [createObstacleState EXCEPT !.majorLevel = 2]
          /\ speed = 200
    /\ InitHostIdle

hostUnchanged ==
    UNCHANGED << isGameOver, isStarted, isVictory, isPaused, victoryStartTime,
                 majorLevel, isLevelClear, levelClearStartTime, currentLevel,
                 time, animating, listening, started, gameOver, victory,
                 score, highScore, isNewHighScore, effectDeps,
                 victoryTriggers, onGameOverCalls >>

\* the caller's adoption of a spawnObstacles result
EngineAdoptSpawn(result) ==
    /\ cubes' = cubes \o result.obstacles
    /\ scene' = scene \cup Ids(result.obstacles)
    /\ nextId' = nextId + Len(result.obstacles)
    /\ lastObstacles' = result.obstacles
    /\ obstacleState' = result.newState
    /\ speed' = result.newSpeed

\* only a session of 0 and stall deltas runs on past the first world units
LongRun == fineTicks = 0 \/ obstacleState.distance <= MaxFineDistance * DistUnit

\* one spawnObstacles call
SpawnObstacles ==
    /\ \E delta \in SpawnDeltas :
         /\ delta \in SpawnFineDeltas => FineAllowed
         /\ LongRun
         /\ obstacleState.distance + distanceDelta(delta, speed)
                <= MaxDistance * DistUnit
         /\ \E rnd \in RndsFor(obstacleState) :
                EngineAdoptSpawn(spawnObstacles(obstacleState, delta, speed,
                                                rnd, nextId))
         /\ fineTicks' = IF delta \in SpawnFineDeltas THEN fineTicks + 1
                                                      ELSE fineTicks
    /\ lastOp' = "spawn"
    /\ UNCHANGED << scoreValue, shipX, shipY, lastCollision, lastScores, lastCulled,
                    timesScored >>
    /\ hostUnchanged

EngineNext == SpawnObstacles

SpecEngine == EngineInit /\ [][EngineNext]_vars

(***************************************************************************)
(* An updater session: markers made by createObstacle and put on a live    *)
(* list, and updateObstacles called tick after tick on that list at the    *)
(* fixed speed 2.0.  shipX and shipY record the ship position passed to    *)
(* the last call, scoreValue sums what onScore received.                   *)
(***************************************************************************)
MaxMarkers == 2                           \* markers created in an updater session
UpdaterFineDeltas == {1, 42, 44}          \* a frame, 1.4 s, 1.4 s and two frames
UpdaterDeltas == {0, Stall} \cup UpdaterFineDeltas
UpdaterXs == {0}                          \* markers are made in the ship's lane
\* ship positions <<x, y>>: on the ground in the middle, 0.8 to the side,
\* and in the middle at heights 1.7 and 2.0
UpdaterShips == { << 0, GROUND_Y >>, << (8 * XUnit) \div 10, GROUND_Y >>,
                  << 0, (17 * YUnit) \div 10 >>, << 0, 2 * YUnit >> }

UpdaterInit ==
    /\ cubes = <<>>
    /\ obstacleState = Null
    /\ speed = 200
    /\ InitHostIdle

\* createObstacle(scene, x, color, high) and the push on the live list
CreateObstacle ==
    /\ nextId <= MaxMarkers
    /\ \E x \in UpdaterXs, high \in BOOLEAN :
         /\ cubes' = Append(cubes, createObstacle(nextId, x, high, <<>>))
         /\ lastObstacles' = << createObstacle(nextId, x, high, <<>>) >>
    /\ scene' = scene \cup {nextId}
    /\ nextId' = nextId + 1
    /\ lastOp' = "create"
    /\ UNCHANGED << obstacleState, speed, scoreValue, shipX, shipY, fineTicks,
                    lastCollision, lastScores, lastCulled, timesScored >>
    /\ hostUnchanged

\* the caller's adoption of what updateObstacles did
EngineAdoptUpdate(upd) ==
    /\ cubes' = upd.cubes
    /\ scene' = upd.scene
    /\ scoreValue' = scoreValue + SumScores(upd.scores)
    /\ lastScores' = upd.scores
    /\ lastCulled' = upd.culled
    /\ lastCollision' = upd.collision
    /\ timesScored' = Tally(timesScored, upd.scores)

\* one updateObstacles call
UpdateObstacles ==
    /\ \E delta \in UpdaterDeltas, ship \in UpdaterShips :
         /\ delta \in UpdaterFineDeltas => fineTicks < MaxFineTicks
         /\ EngineAdoptUpdate(updateObstacles(scene, cubes, ship[1], ship[2],
                                             delta, speed))
         /\ shipX' = ship[1]
         /\ shipY' = ship[2]
         /\ fineTicks' = IF delta \in UpdaterFineDeltas THEN fineTicks + 1
                                                        ELSE fineTicks
    /\ lastOp' = "update"
    /\ lastObstacles' = <<>>
    /\ UNCHANGED << obstacleState, speed, nextId >>
    /\ hostUnchanged

UpdaterNext == CreateObstacle \/ UpdateObstacles

SpecUpdater == UpdaterInit /\ [][UpdaterNext]_vars

(***************************************************************************)
(* An approach session: an updater session in which the ship stays where   *)
(* start() puts it, in the middle lane on the ground, in every             *)
(* updateObstacles call, so that a ground-tier marker of the middle lane   *)
(* is within the ship's collision box, laterally and vertically, for the   *)
(* whole of its approach.                                                  *)
(***************************************************************************)
ApproachInit == UpdaterInit

\* one updateObstacles call with the ship in place
ApproachUpdate ==
    /\ \E delta \in UpdaterDeltas :
         /\ delta \in UpdaterFineDeltas => fineTicks < MaxFineTicks
         /\ EngineAdoptUpdate(updateObstacles(scene, cubes, shipX, shipY,
                                             delta, speed))
         /\ fineTicks' = IF delta \in UpdaterFineDeltas THEN fineTicks + 1
                                                        ELSE fineTicks
    /\ lastOp' = "update"
    /\ lastObstacles' = <<>>
    /\ UNCHANGED << obstacleState, speed, nextId, shipX, shipY >>
    /\ hostUnchanged

ApproachNext == CreateObstacle \/ ApproachUpdate

SpecApproach == ApproachInit /\ [][ApproachNext]_vars

(***************************************************************************)
(* A session of major level 1 played in even ticks of 2/3 s, from          *)
(* createObstacleState and getLevelSpeed(1) to the end of its six levels:  *)
(* at every speed of major level 1 such a tick covers the shortest spawn   *)
(* interval, so that the Normal phases spawn tick after tick and the speed *)
(* ramp runs its full course.  Markers are made in the middle lane.        *)
(***************************************************************************)
RampDeltas == {2 * 10}                    \* frames: 2/3 s
\* Math.random() is free in the jitter of the session's first spawns
RampRnds ==
    IF nextId <= MaxFineTicks THEN [x : {0}, jitter : Jitters, low : {TRUE}]
                              ELSE {NoRnd}

RampInit ==
    /\ cubes = <<>>
    /\ obstacleState = createObstacleState
    /\ speed = getLevelSpeed(1)
    /\ InitHostIdle

\* one spawnObstacles call of the session
RampTick ==
    /\ obstacleState.majorLevel = 1
    /\ \E delta \in RampDeltas, rnd \in RampRnds :
          EngineAdoptSpawn(spawnObstacles(obstacleState, delta, speed, rnd, nextId))
    /\ lastOp' = "spawn"
    /\ UNCHANGED << scoreValue, shipX, shipY, lastCollision, lastScores, lastCulled,
                    timesScored, fineTicks >>
    /\ hostUnchanged

RampNext == RampTick

SpecRamp == RampInit /\ [][RampNext]_vars

(***************************************************************************)
(* A funnel session: a spawner session that reaches its first funnel in     *)
(* one long tick (major level 1 from createObstacleState, major level 2     *)
(* from the state start() makes) and goes through it in ticks of one world  *)
(* unit, so that wall rows are spawned at every width of the gap down to    *)
(* the funnel's end.  Near the funnel's mouth a tick may also be 3 frames.  *)
(***************************************************************************)
FunnelFineDistance == 6                   \* world units of funnel with 3-frame ticks
\* the tick that ends the first Normal phase: 88 s at speed 0.5 is 660 world
\* units, 50 s at speed 2.0 is 1500
EntryDelta(state) ==
    IF state.majorLevel = 1 THEN 88 * FrameRate ELSE 50 * FrameRate
\* one world unit: 4 frames at speed 0.5, 1 frame at speed 2.0
UnitDelta(state) == IF state.majorLevel = 1 THEN 4 ELSE 1
FunnelFineDeltas == {3}

FunnelInit == EngineInit

\* the spawnObstacles call that ends the Normal phase
FunnelEntry ==
    /\ obstacleState.phase = "normal"
    /\ obstacleState.distance = 0
    /\ \E rnd \in RndsFor(obstacleState) :
          EngineAdoptSpawn(spawnObstacles(obstacleState, EntryDelta(obstacleState),
                                          speed, rnd, nextId))
    /\ lastOp' = "spawn"
    /\ UNCHANGED << scoreValue, shipX, shipY, lastCollision, lastScores, lastCulled,
                    timesScored, fineTicks >>
    /\ hostUnchanged

\* one spawnObstacles call in the funnel
FunnelTick ==
    /\ obstacleState.phase = "funnel"
    /\ obstacleState.majorLevel \in {1, 2}
    /\ \E delta \in {UnitDelta(obstacleState)} \cup FunnelFineDeltas :
         /\ delta \in FunnelFineDeltas =>
               /\ fineTicks < MaxFineTicks
               /\ obstacleState.distance - obstacleState.phaseStartDistance
                     <= FunnelFineDistance * DistUnit
         /\ EngineAdoptSpawn(spawnObstacles(obstacleState, delta, speed,
                                            NoRnd, nextId))
         /\ fineTicks' = IF delta \in FunnelFineDeltas THEN fineTicks + 1
                                                       ELSE fineTicks
    /\ lastOp' = "spawn"
    /\ UNCHANGED << scoreValue, shipX, shipY, lastCollision, lastScores, lastCulled,
                    timesScored >>
    /\ hostUnchanged

FunnelNext == FunnelEntry \/ FunnelTick

SpecFunnel == FunnelInit /\ [][FunnelNext]_vars

(***************************************************************************)
(* Calls of the engine's helpers on given arguments: getLevelSpeed on a    *)
(* level, and the two wall spawners on a funnelProgress, each on an empty  *)
(* target list in an empty scene.  obstacleState carries the level and the *)
(* funnelProgress given to the last calls, speed what getLevelSpeed        *)
(* returned, cubes and lastObstacles the row a spawner made.               *)
(***************************************************************************)
MaxLevel == 12                            \* levels given to getLevelSpeed
ProgressSteps == 20                       \* funnelProgress values between 0 and 1
Levels == 1..MaxLevel
Progresses ==
    {0, ProgressUnit}
        \cup { k * (ProgressUnit \div ProgressSteps) : k \in 0..ProgressSteps }

FunctionsInit ==
    /\ cubes = <<>>
    /\ obstacleState = createObstacleState
    /\ speed = getLevelSpeed(1)
    /\ InitHostIdle

\* speed = getLevelSpeed(level)
GetLevelSpeed ==
    /\ \E level \in Levels :
         /\ obstacleState' = [obstacleState EXCEPT !.level = level]
         /\ speed' = getLevelSpeed(level)
    /\ lastOp' = "getLevelSpeed"
    /\ UNCHANGED << cubes, scene, nextId, lastObstacles, scoreValue, shipX, shipY,
                    fineTicks, lastCollision, lastScores, lastCulled, timesScored >>
    /\ hostUnchanged

\* the caller's view of a row pushed on an empty target in an empty scene
AdoptRow(row) ==
    /\ cubes' = row
    /\ lastObstacles' = row
    /\ scene' = Ids(row)
    /\ nextId' = 1 + Len(row)

\* spawnFunnelWalls(scene, target, progress, color)
SpawnFunnelWalls ==
    /\ \E progress \in Progresses :
         /\ obstacleState' = [obstacleState EXCEPT !.funnelProgress = progress]
         /\ AdoptRow(spawnFunnelWalls(<<>>, progress, 1))
    /\ lastOp' = "spawnFunnelWalls"
    /\ UNCHANGED << speed, scoreValue, shipX, shipY, fineTicks, lastCollision,
                    lastScores, lastCulled, timesScored >>
    /\ hostUnchanged

\* spawnLevel2FunnelWalls(scene, target, progress, color)
SpawnLevel2FunnelWalls ==
    /\ \E progress \in Progresses :
         /\ obstacleState' = [obstacleState EXCEPT !.funnelProgress = progress]
         /\ AdoptRow(spawnLevel2FunnelWalls(<<>>, progress, 1))
    /\ lastOp' = "spawnLevel2FunnelWalls"
    /\ UNCHANGED << speed, scoreValue, shipX, shipY, fineTicks, lastCollision,
                    lastScores, lastCulled, timesScored >>
    /\ hostUnchanged

FunctionsNext == GetLevelSpeed \/ SpawnFunnelWalls \/ SpawnLevel2FunnelWalls

SpecFunctions == FunctionsInit /\ [][FunctionsNext]_vars

(***************************************************************************)
(* Properties.                                                             *)
(***************************************************************************)

\* C1: across the spawnObstacles ticks of a session, ObstacleState.majorLevel
\* never decreases (it moves 1 -> 2 -> 3 and never back).
C1_MajorLevelNeverDecreases ==
    [][obstacleState'.majorLevel >= obstacleState.majorLevel]_vars

\* C2: once the state has majorLevel = 3, a further spawnObstacles tick
\* creates no markers and leaves level, phase, phaseStartDistance,
\* nextSpawnDistance, funnelProgress and majorLevel unchanged.
C2_VictoryIsTerminal ==
    [][obstacleState.majorLevel = 3 =>
          /\ lastObstacles' = <<>>
          /\ obstacleState'.level = obstacleState.level
          /\ obstacleState'.phase = obstacleState.phase
          /\ obstacleState'.phaseStartDistance = obstacleState.phaseStartDistance
          /\ obstacleState'.nextSpawnDistance = obstacleState.nextSpawnDistance
          /\ obstacleState'.funnelProgress = obstacleState.funnelProgress
          /\ obstacleState'.majorLevel = obstacleState.majorLevel]_vars

\* C3: in a session (from one start() to the next) the victory branch of
\* handleLevelChange is executed at most once.
C3_VictoryBranchOnce == victoryTriggers <= 1

\* C4: right after start() the ObstacleState is the fresh reset state
\* (distance 0, level 1, Normal phase, majorLevel 1), the live-marker list is
\* empty and the score is 0.
C4_StartResets ==
    lastOp = "start" =>
        /\ obstacleState.distance = 0
        /\ obstacleState.level = 1
        /\ obstacleState.phase = "normal"
        /\ obstacleState.majorLevel = 1
        /\ cubes = <<>>
        /\ scene = {}
        /\ scoreValue = 0

\* C5: over the spawnObstacles ticks of a session (deltaTime >= 0, speed >= 0)
\* ObstacleState.distance never decreases and is never negative, in major
\* level 1 and in major level 2.
C5_DistanceMonotone ==
    [][/\ obstacleState'.distance >= obstacleState.distance
       /\ obstacleState'.distance >= 0]_vars

\* a tick has advanced the distance inside major level 2, after major level 1
C5_Witness ==
    /\ lastOp = "spawn"
    /\ obstacleState.majorLevel = 2
    /\ obstacleState.level2Distance > 0
    /\ obstacleState.distance > obstacleState.level2Distance

\* C6: over the updateObstacles ticks of a session no marker receives more
\* than one onScore call, and a marker's passed flag, once true, stays true.
C6_ScoredAtMostOnce ==
    [][/\ \A id \in DOMAIN timesScored' : timesScored'[id] <= 1
       /\ \A j \in 1..Len(cubes), k \in 1..Len(cubes') :
            (cubes'[k].id = cubes[j].id /\ cubes[j].passed) => cubes'[k].passed]_vars

\* a marker scored on an earlier tick is live and has been through a later
\* updateObstacles tick that scored nothing
C6_Witness ==
    /\ lastOp = "update"
    /\ lastScores = <<>>
    /\ \E j \in 1..Len(cubes) :
          /\ cubes[j].passed
          /\ cubes[j].id \in DOMAIN timesScored
          /\ timesScored[cubes[j].id] = 1

\* C7: updateObstacles returns true exactly when some live marker, at its
\* depth after the tick's advance, has 2 < z < 4, |x - shipX| < 0.8 and
\* |y - shipY| < 1.2, all bounds strict.
C7_CollisionIff ==
    lastOp = "update" =>
        (lastCollision <=>
            \E j \in 1..Len(cubes) :
                /\ cubes[j].z > 2 * DistUnit
                /\ cubes[j].z < 4 * DistUnit
                /\ Abs(cubes[j].x - shipX) * 10 < 8 * XUnit
                /\ Abs(cubes[j].y - shipY) * 10 < 12 * YUnit)

\* updateObstacles has returned true with a marker at depth 3.0 in front of
\* the ship
C7_Witness ==
    /\ lastOp = "update"
    /\ lastCollision
    /\ \E j \in 1..Len(cubes) :
          cubes[j].z = 3 * DistUnit /\ cubes[j].x = shipX

\* C8: after every updateObstacles call no live marker has z > 10, and the
\* markers the call advanced past 10 are off the live list and off the scene.
C8_Culling ==
    lastOp = "update" =>
        /\ \A j \in 1..Len(cubes) : cubes[j].z <= 10 * DistUnit
        /\ \A k \in 1..Len(lastCulled) :
              /\ lastCulled[k].id \notin Ids(cubes)
              /\ lastCulled[k].id \notin scene
        /\ scene = Ids(cubes)

\* an updateObstacles call has culled a marker and kept another
C8_Witness ==
    /\ lastOp = "update"
    /\ lastCulled # <<>>
    /\ cubes # <<>>

\* C9: on an updateObstacles tick, an unpassed marker whose depth after the
\* advance is > 4 gets passed set and one onScore call, of 10 for a ground-tier
\* and 20 for a high-tier marker; a marker whose depth is <= 4 gets none.
C9_ScoringRule ==
    [][lastOp' = "update" =>
         \A j \in 1..Len(cubes), k \in 1..Len(cubes' \o lastCulled') :
            (cubes' \o lastCulled')[k].id = cubes[j].id =>
               /\ ((~cubes[j].passed) /\ (cubes' \o lastCulled')[k].z > 4 * DistUnit)
                    => /\ (cubes' \o lastCulled')[k].passed
                       /\ \E n \in 1..Len(lastScores') :
                            lastScores'[n] = << cubes[j].id,
                                                IF cubes[j].high THEN 20 ELSE 10 >>
               /\ (cubes' \o lastCulled')[k].z <= 4 * DistUnit
                    => /\ ~(cubes' \o lastCulled')[k].passed
                       /\ \A n \in 1..Len(lastScores') :
                            lastScores'[n][1] # cubes[j].id]_vars

\* one updateObstacles tick has scored a high-tier and a ground-tier marker
C9_Witness ==
    /\ lastOp = "update"
    /\ \E a, b \in 1..Len(lastScores) :
          lastScores[a][2] = 20 /\ lastScores[b][2] = 10

\* C10: a major-level-1 tick that starts in the Normal phase ends in the
\* Funnel phase with phaseStartDistance = distance, funnelProgress = 0,
\* nextSpawnDistance = distance and level and majorLevel unchanged when the
\* post-advance phaseDistance is >= 660, and stays Normal when it is < 660.
C10_NormalToFunnel ==
    [][(obstacleState.majorLevel = 1 /\ obstacleState.phase = "normal") =>
         IF obstacleState'.distance - obstacleState.phaseStartDistance
               >= 660 * DistUnit
           THEN /\ obstacleState'.phase = "funnel"
                /\ obstacleState'.phaseStartDistance = obstacleState'.distance
                /\ obstacleState'.funnelProgress = 0
                /\ obstacleState'.nextSpawnDistance = obstacleState'.distance
                /\ obstacleState'.level = obstacleState.level
                /\ obstacleState'.majorLevel = obstacleState.majorLevel
           ELSE obstacleState'.phase = "normal"]_vars

\* a tick has taken level 1 into its funnel at a phaseDistance of exactly 660
C10_Witness ==
    /\ lastOp = "spawn"
    /\ obstacleState.majorLevel = 1
    /\ obstacleState.level = 1
    /\ obstacleState.phase = "funnel"
    /\ obstacleState.distance = 660 * DistUnit
    /\ obstacleState.phaseStartDistance = obstacleState.distance

\* C11: a major-level-1 tick that starts in the Funnel phase with level < 6
\* and whose post-advance phaseDistance is >= 55 gives level + 1, phase
\* Normal, phaseStartDistance = distance, funnelProgress = 0,
\* nextSpawnDistance = distance + 5 and the speed getLevelSpeed(level + 1).
C11_FunnelToNormal ==
    [][(/\ obstacleState.majorLevel = 1
        /\ obstacleState.phase = "funnel"
        /\ obstacleState.level < 6
        /\ obstacleState'.distance - obstacleState.phaseStartDistance
              >= 55 * DistUnit) =>
         /\ obstacleState'.level = obstacleState.level + 1
         /\ obstacleState'.phase = "normal"
         /\ obstacleState'.phaseStartDistance = obstacleState'.distance
         /\ obstacleState'.funnelProgress = 0
         /\ obstacleState'.nextSpawnDistance = obstacleState'.distance + 5 * DistUnit
         /\ obstacleState'.majorLevel = 1
         /\ speed' = getLevelSpeed(obstacleState.level + 1)]_vars

\* a tick has ended the funnel of level 1 at a phaseDistance of exactly 55
C11_Witness ==
    /\ lastOp = "spawn"
    /\ obstacleState.majorLevel = 1
    /\ obstacleState.level = 2
    /\ obstacleState.phase = "normal"
    /\ obstacleState.distance = (660 + 55) * DistUnit
    /\ obstacleState.phaseStartDistance = obstacleState.distance
    /\ speed = 80

C13_Level2Progression ==
    [][/\ (obstacleState.majorLevel = 2 /\ obstacleState.phase = "normal") =>
            /\ obstacleState'.majorLevel = 2
            /\ (obstacleState'.phase = "funnel")
                  <=> (obstacleState'.level2Distance >= 1500 * DistUnit)
            /\ obstacleState'.level2Distance - obstacleState.level2Distance
                  = obstacleState'.distance - obstacleState.distance
       /\ (obstacleState.majorLevel = 2 /\ obstacleState.phase = "funnel") =>
            /\ obstacleState'.phase = "funnel"
            /\ (obstacleState'.majorLevel = 3)
                  <=> (obstacleState'.distance - obstacleState.phaseStartDistance
                          >= 55 * DistUnit)
            /\ (obstacleState'.majorLevel # 3) => obstacleState'.majorLevel = 2
       /\ (obstacleState'.majorLevel = 3 /\ obstacleState.majorLevel # 3) =>
            (obstacleState.majorLevel = 2 /\ obstacleState.phase = "funnel")]_vars

\* major level 2 has run from its start to the victory sentinel, meeting both
\* thresholds exactly
C13_Witness ==
    /\ lastOp = "spawn"
    /\ obstacleState.majorLevel = 3
    /\ obstacleState.level2Distance = (1500 + 55) * DistUnit
    /\ obstacleState.distance - obstacleState.phaseStartDistance = 55 * DistUnit

\* C14 as stated: a major-level-1 Normal-phase tick creates no marker while
\* the post-advance distance is < nextSpawnDistance, and on every such tick
\* with distance >= nextSpawnDistance it creates exactly one ground-height
\* marker with x in [-8, 8) and sets nextSpawnDistance within
\* [distance + 5, distance + 10].
C14_SpawnOnEveryDueTick ==
    [][(obstacleState.majorLevel = 1 /\ obstacleState.phase = "normal") =>
         /\ (obstacleState'.distance < obstacleState.nextSpawnDistance) =>
               /\ lastObstacles' = <<>>
               /\ obstacleState'.phase = "normal" =>
                     obstacleState'.nextSpawnDistance = obstacleState.nextSpawnDistance
         /\ (/\ obstacleState'.distance >= obstacleState.nextSpawnDistance) =>
               /\ Len(lastObstacles') = 1
               /\ lastObstacles'[1].y = (5 * YUnit) \div 10
               /\ ~lastObstacles'[1].high
               /\ lastObstacles'[1].x >= (-8) * XUnit
               /\ lastObstacles'[1].x < 8 * XUnit
               /\ obstacleState'.nextSpawnDistance
                     >= obstacleState'.distance + 5 * DistUnit
               /\ obstacleState'.nextSpawnDistance
                     <= obstacleState'.distance + 10 * DistUnit]_vars

\* C14, amended: the same, for the ticks with distance >= nextSpawnDistance
\* that do not end the Normal phase (post-advance phaseDistance < 660); the
\* tick that ends the phase creates no marker.
C14_SpawnRule ==
    [][(obstacleState.majorLevel = 1 /\ obstacleState.phase = "normal") =>
         /\ (obstacleState'.distance < obstacleState.nextSpawnDistance) =>
               /\ lastObstacles' = <<>>
               /\ obstacleState'.phase = "normal" =>
                     obstacleState'.nextSpawnDistance = obstacleState.nextSpawnDistance
         /\ (/\ obstacleState'.distance >= obstacleState.nextSpawnDistance
             /\ obstacleState'.distance - obstacleState.phaseStartDistance
                    < 660 * DistUnit) =>
               /\ Len(lastObstacles') = 1
               /\ lastObstacles'[1].y = (5 * YUnit) \div 10
               /\ ~lastObstacles'[1].high
               /\ lastObstacles'[1].x >= (-8) * XUnit
               /\ lastObstacles'[1].x < 8 * XUnit
               /\ obstacleState'.nextSpawnDistance
                     >= obstacleState'.distance + 5 * DistUnit
               /\ obstacleState'.nextSpawnDistance
                     <= obstacleState'.distance + 10 * DistUnit]_vars

\* the first marker of a session has been created on the tick that reached
\* distance 15 exactly
C14_Witness ==
    /\ lastOp = "spawn"
    /\ obstacleState.majorLevel = 1
    /\ obstacleState.phase = "normal"
    /\ obstacleState.distance = 15 * DistUnit
    /\ Len(lastObstacles) = 1
    /\ nextId = 2
    /\ obstacleState.nextSpawnDistance >= 20 * DistUnit

\* C15: one spawnObstacles call creates at most one marker when it starts in
\* a Normal phase and at most one wall row (no two markers at the same x and
\* y) when it starts in a Funnel phase, however far the distance jumps; and a
\* tick that changes phase, level or majorLevel creates no marker.
C15_SingleSpawnPerTick ==
    [][lastOp' = "spawn" =>
         /\ obstacleState.phase = "normal" => Len(lastObstacles') <= 1
         /\ obstacleState.phase = "funnel" =>
               /\ Len(lastObstacles')
                     <= IF obstacleState.majorLevel = 2 THEN 22 ELSE 11
               /\ \A a, b \in 1..Len(lastObstacles') :
                     (/\ lastObstacles'[a].x = lastObstacles'[b].x
                      /\ lastObstacles'[a].y = lastObstacles'[b].y) => a = b
         /\ (\/ obstacleState'.phase # obstacleState.phase
             \/ obstacleState'.level # obstacleState.level
             \/ obstacleState'.majorLevel # obstacleState.majorLevel) =>
               lastObstacles' = <<>>]_vars

\* the first marker of a session was created by a tick that had jumped from
\* before the first threshold (15) to beyond distance 100
C15_Witness ==
    /\ lastOp = "spawn"
    /\ obstacleState.majorLevel = 1
    /\ obstacleState.phase = "normal"
    /\ obstacleState.level = 1
    /\ Len(lastObstacles) = 1
    /\ nextId = 2
    /\ obstacleState.distance > 100 * DistUnit

\* C16: in every reachable ObstacleState, the state of the tick that reaches
\* the victory sentinel included, funnelProgress lies in [0, 1].
C16_FunnelProgressInUnitRange ==
    /\ obstacleState.funnelProgress >= 0
    /\ obstacleState.funnelProgress <= ProgressUnit

\* C17: in every reachable ObstacleState nextSpawnDistance >= phaseStartDistance.
C17_NextSpawnNotBeforePhaseStart ==
    obstacleState.nextSpawnDistance >= obstacleState.phaseStartDistance

\* a phase has just begun beyond the start of the session, with the two
\* distances equal
C17_Witness ==
    /\ lastOp = "spawn"
    /\ obstacleState.phase = "funnel"
    /\ obstacleState.phaseStartDistance > 0
    /\ obstacleState.nextSpawnDistance = obstacleState.phaseStartDistance

\* C18: across the spawnObstacles ticks of a session level never decreases,
\* changes only by +1 and only on a tick that starts in the Funnel phase of
\* major level 1, and is not changed by a major-level-2 tick.
C18_LevelSteps ==
    [][/\ obstacleState'.level >= obstacleState.level
       /\ (obstacleState'.level # obstacleState.level) =>
             /\ obstacleState'.level = obstacleState.level + 1
             /\ obstacleState.majorLevel = 1
             /\ obstacleState.phase = "funnel"
       /\ obstacleState.majorLevel = 2 =>
             obstacleState'.level = obstacleState.level]_vars

\* C19: however large the delta, a tick makes at most one phase transition (a
\* new phase begins at the tick's distance), a tick that starts in a Normal
\* phase keeps level and majorLevel, and a threshold that is reached or
\* overshot triggers its transition on that tick.
C19_NoPhaseSkipped ==
    [][lastOp' = "spawn" =>
         /\ obstacleState.phase = "normal" =>
               /\ obstacleState'.level = obstacleState.level
               /\ obstacleState'.majorLevel = obstacleState.majorLevel
               /\ obstacleState'.phase = "funnel" =>
                     /\ obstacleState'.phaseStartDistance = obstacleState'.distance
                     /\ obstacleState'.funnelProgress = 0
         /\ (obstacleState.phase = "funnel"
                /\ obstacleState'.phase = "normal") =>
               /\ obstacleState'.phaseStartDistance = obstacleState'.distance
               /\ obstacleState'.level = obstacleState.level + 1
         /\ (/\ obstacleState.majorLevel = 1
             /\ obstacleState.phase = "normal"
             /\ obstacleState'.distance - obstacleState.phaseStartDistance
                   >= 660 * DistUnit) => obstacleState'.phase = "funnel"
         /\ (/\ obstacleState.majorLevel = 1
             /\ obstacleState.phase = "funnel"
             /\ obstacleState'.distance - obstacleState.phaseStartDistance
                   >= 55 * DistUnit) => obstacleState'.phase = "normal"
         /\ (/\ obstacleState.majorLevel = 2
             /\ obstacleState.phase = "normal"
             /\ obstacleState'.level2Distance >= 1500 * DistUnit) =>
               obstacleState'.phase = "funnel"
         /\ (/\ obstacleState.majorLevel = 2
             /\ obstacleState.phase = "funnel"
             /\ obstacleState'.distance - obstacleState.phaseStartDistance
                   >= 55 * DistUnit) => obstacleState'.majorLevel = 3]_vars

\* one tick has overshot the end of level 1's Normal phase by more than a
\* whole funnel, and the session is at the start of that funnel
C19_Witness ==
    /\ lastOp = "spawn"
    /\ obstacleState.majorLevel = 1
    /\ obstacleState.level = 1
    /\ obstacleState.phase = "funnel"
    /\ obstacleState.phaseStartDistance = obstacleState.distance
    /\ obstacleState.distance >= (660 + 55) * DistUnit
    /\ fineTicks = 0

\* C20: getLevel1Progress of every reachable ObstacleState lies in [0, 1]; while
\* majorLevel = 1 it is (level - 1 + min(1, phaseDistance / phaseLength)) / 6
\* with a phase length of 660 in the Normal phase and 55 in the Funnel phase;
\* when majorLevel # 1 it is exactly 1.
C20_Level1Progress ==
    LET value == getLevel1Progress(obstacleState)
        pd == obstacleState.distance - obstacleState.phaseStartDistance
        sixth == 660 * DistUnit
    IN  /\ value >= 0
        /\ value <= 6 * sixth
        /\ (obstacleState.majorLevel = 1 /\ obstacleState.phase = "normal") =>
              value = (obstacleState.level - 1) * sixth
                         + (IF pd >= 660 * DistUnit THEN sixth ELSE pd)
        /\ (obstacleState.majorLevel = 1 /\ obstacleState.phase = "funnel") =>
              value = (obstacleState.level - 1) * sixth
                         + (IF pd >= 55 * DistUnit THEN sixth ELSE 12 * pd)
        /\ obstacleState.majorLevel # 1 => value = 6 * sixth

\* a session part way through the funnel that ends level 2 of major level 1
C20_Witness ==
    /\ obstacleState.majorLevel = 1
    /\ obstacleState.level = 2
    /\ obstacleState.phase = "funnel"
    /\ obstacleState.distance > obstacleState.phaseStartDistance
    /\ getLevel1Progress(obstacleState) > 2 * 660 * DistUnit - 12 * 55 * DistUnit
    /\ getLevel1Progress(obstacleState) < 2 * 660 * DistUnit

\* C21: for every level >= 1, getLevelSpeed(level) = min(3.0, 0.5 + 0.3 *
\* (level - 1)); it never exceeds 3.0 and getLevelSpeed(level + 1) >=
\* getLevelSpeed(level).
C21_LevelSpeed ==
    lastOp = "getLevelSpeed" =>
        LET level == obstacleState.level
            linear == 5 + 3 * (level - 1)         \* in tenths
        IN  /\ speed = 10 * (IF linear < 30 THEN linear ELSE 30)
            /\ speed <= 3 * 100
            /\ getLevelSpeed(level + 1) >= speed
            /\ \A other \in Levels :
                  other >= level => getLevelSpeed(other) >= speed

\* getLevelSpeed has been called on a level at which the cap binds
C21_Witness ==
    /\ lastOp = "getLevelSpeed"
    /\ obstacleState.level = 11
    /\ speed = 3 * 100

\* C22: the gap half-width gapHalf(p) = 8 - p * 6.8 is non-increasing in p over
\* [0, 1], is 8.0 at p = 0 and 1.2 at p = 1, and the major-level-2 wall spawner
\* computes the same value as the major-level-1 wall spawner.
C22_GapHalf ==
    LET p == obstacleState.funnelProgress
    IN  /\ gapHalf(p) * 10 = 8 * XUnit * ProgressUnit * 10 - p * 68 * XUnit
        /\ \A q \in Progresses : q >= p => gapHalf(q) <= gapHalf(p)
        /\ gapHalf(0) = 8 * XUnit * ProgressUnit
        /\ gapHalf(ProgressUnit) * 10 = 12 * XUnit * ProgressUnit
        /\ level2GapHalf(p) = gapHalf(p)
        /\ lastOp = "spawnFunnelWalls" =>
              \A k \in 1..Len(lastObstacles) :
                  Abs(lastObstacles[k].x) * ProgressUnit > gapHalf(p)
        /\ lastOp = "spawnLevel2FunnelWalls" =>
              \A k \in 1..Len(lastObstacles) :
                  Abs(lastObstacles[k].x) * ProgressUnit > gapHalf(p)

\* the level-2 spawner has made a row at funnelProgress 1, where the gap is
\* narrowest
C22_Witness ==
    /\ lastOp = "spawnLevel2FunnelWalls"
    /\ obstacleState.funnelProgress = ProgressUnit
    /\ Len(lastObstacles) > 2

\* C23: after cleanup() (the only operation that removes the listeners) no
\* further animation frame runs, and a cleanup() after the first changes no
\* game state.
C23_CleanupIdempotent ==
    [][/\ (~listening) => /\ ~listening'
                          /\ lastOp' # "frame"
                          /\ time' = time
       /\ (lastOp' = "cleanup" /\ ~listening) =>
             UNCHANGED << cubes, speed, scoreValue, isGameOver, isStarted,
                          isVictory, isPaused, victoryStartTime, obstacleState,
                          majorLevel, isLevelClear, levelClearStartTime,
                          currentLevel, shipX, shipY, time, animating, listening,
                          scene, nextId, started, gameOver, victory >>]_vars

\* cleanup() has run in a session that had frames and live markers
C23_Witness ==
    /\ lastOp = "cleanup"
    /\ ~animating
    /\ ~listening
    /\ isStarted
    /\ time > 0
    /\ cubes # <<>>

\* C24: a frame in which updateObstacles reports a collision ends the run:
\* onGameOver has then been invoked exactly once for the run, and until start()
\* is called again no step changes distance, score, speed or the live markers,
\* or invokes onGameOver again.
C24_CollisionEndsRun ==
    [][/\ (lastOp' = "frame" /\ lastCollision') =>
             /\ isGameOver'
             /\ gameOver'
             /\ onGameOverCalls' = 1
       /\ (isGameOver /\ lastOp' # "start") =>
             /\ isGameOver'
             /\ obstacleState' = obstacleState
             /\ scoreValue' = scoreValue
             /\ speed' = speed
             /\ cubes' = cubes
             /\ scene' = scene
             /\ onGameOverCalls' = onGameOverCalls
             /\ lastOp' = "frame" => ~lastCollision']_vars

\* a frame has run after the frame of the collision, with the markers still
\* in place
C24_Witness ==
    /\ lastOp = "frame"
    /\ isGameOver
    /\ ~lastCollision
    /\ onGameOverCalls = 1
    /\ cubes # <<>>

\* C25: the live marker list and the obstacle markers attached to the scene are
\* the same set after every frame and every session-control operation: a
\* spawned marker is in both or in neither, a culled marker is in neither, and
\* the clearObstacles of start() and of the victory branch empties both while
\* the ObstacleState the frame's spawnObstacles returned stays as it is.
C25_ListMatchesScene ==
    [][/\ Ids(cubes) = scene
       /\ Ids(cubes') = scene'
       /\ Cardinality(scene') = Len(cubes')
       /\ \A k \in 1..Len(lastObstacles') :
             lastObstacles'[k].id \in scene'
                 <=> lastObstacles'[k].id \in Ids(cubes')
       /\ \A k \in 1..Len(lastCulled') :
             /\ lastCulled'[k].id \notin scene'
             /\ lastCulled'[k].id \notin Ids(cubes')
       /\ lastOp' = "start" => cubes' = <<>> /\ scene' = {}
       /\ (lastOp' = "frame" /\ isVictory' /\ ~isVictory) =>
             /\ cubes' = <<>>
             /\ scene' = {}
             /\ obstacleState' = [obstacleState EXCEPT
                    !.majorLevel = 3,
                    !.distance = obstacleState.distance
                                    + distanceDelta(time' - time, speed),
                    !.level2Distance = obstacleState.level2Distance
                                    + distanceDelta(time' - time, speed),
                    !.funnelProgress = obstacleState'.funnelProgress]]_vars

\* start() has been called on a game with live markers in the scene (after a
\* collision), and has emptied both
C25_Witness ==
    /\ lastOp = "start"
    /\ cubes = <<>>
    /\ scene = {}
    /\ nextId > 1
    /\ time > 0

\* C26: every marker that updateObstacles culls (z > 10) has passed set and has
\* had exactly one onScore call, in this tick if it came from z <= 4 within the
\* single tick.
C26_CulledWasScored ==
    [][lastOp' = "update" =>
         \A k \in 1..Len(lastCulled') :
            /\ lastCulled'[k].z > 10 * DistUnit
            /\ lastCulled'[k].passed
            /\ lastCulled'[k].id \in DOMAIN timesScored'
            /\ timesScored'[lastCulled'[k].id] = 1
            /\ \A j \in 1..Len(cubes) :
                  (cubes[j].id = lastCulled'[k].id
                      /\ cubes[j].z <= 4 * DistUnit) =>
                     /\ ~cubes[j].passed
                     /\ \E n \in 1..Len(lastScores') :
                           lastScores'[n][1] = cubes[j].id]_vars

\* one tick has taken a marker from before the scoring depth to beyond the
\* camera: it is culled and scored by the same call
C26_Witness ==
    /\ lastOp = "update"
    /\ \E k \in 1..Len(lastCulled), n \in 1..Len(lastScores) :
          /\ lastScores[n][1] = lastCulled[k].id
          /\ lastCulled[k].passed
          /\ timesScored[lastCulled[k].id] = 1

\* C27, as stated: a Normal -> Funnel transition leaves the funnel starting at
\* the current distance with nextSpawnDistance not beyond it, and on the tick
\* that follows the wall spawn check passes, whatever the tick's deltaTime:
\* the phase is still Funnel and nextSpawnDistance is the new distance plus
\* the funnel spawn interval.
C27_SpawnOnNextTick ==
    [][/\ (/\ obstacleState.majorLevel \in {1, 2}
           /\ obstacleState.phase = "normal"
           /\ obstacleState'.phase = "funnel") =>
             /\ obstacleState'.phaseStartDistance = obstacleState'.distance
             /\ obstacleState'.nextSpawnDistance <= obstacleState'.distance
       /\ (/\ obstacleState.majorLevel \in {1, 2}
           /\ obstacleState.phase = "funnel"
           /\ obstacleState.phaseStartDistance = obstacleState.distance
           /\ obstacleState.nextSpawnDistance <= obstacleState.distance) =>
         /\ obstacleState'.phase = "funnel"
         /\ obstacleState'.majorLevel = obstacleState.majorLevel
         /\ obstacleState'.nextSpawnDistance = obstacleState'.distance
              + (IF obstacleState.majorLevel = 1 THEN 2 * DistUnit
                                                 ELSE (15 * DistUnit) \div 10)]_vars

\* C27, amended: the same for every deltaTime that leaves the tick's
\* phaseDistance below 55; the row has at least one marker when the tick
\* advanced at all.  A tick that takes phaseDistance to 55 or more ends the
\* funnel and spawns nothing.
C27_SpawnOnNextTickInFunnel ==
    [][/\ (/\ obstacleState.majorLevel \in {1, 2}
           /\ obstacleState.phase = "normal"
           /\ obstacleState'.phase = "funnel") =>
             /\ obstacleState'.phaseStartDistance = obstacleState'.distance
             /\ obstacleState'.nextSpawnDistance <= obstacleState'.distance
       /\ (/\ obstacleState.majorLevel \in {1, 2}
           /\ obstacleState.phase = "funnel"
           /\ obstacleState.phaseStartDistance = obstacleState.distance
           /\ obstacleState.nextSpawnDistance <= obstacleState.distance) =>
         /\ (obstacleState'.distance - obstacleState.phaseStartDistance
                < 55 * DistUnit) =>
               /\ obstacleState'.phase = "funnel"
               /\ obstacleState'.majorLevel = obstacleState.majorLevel
               /\ obstacleState'.nextSpawnDistance = obstacleState'.distance
                    + (IF obstacleState.majorLevel = 1 THEN 2 * DistUnit
                                                       ELSE (15 * DistUnit) \div 10)
               /\ obstacleState'.distance > obstacleState.distance =>
                     /\ lastObstacles' # <<>>
                     /\ \A k \in 1..Len(lastObstacles') :
                           Abs(lastObstacles'[k].x) * 10 > 12 * XUnit
         /\ (obstacleState'.distance - obstacleState.phaseStartDistance
                >= 55 * DistUnit) =>
               /\ lastObstacles' = <<>>
               /\ obstacleState'.phase = "normal"
                     \/ obstacleState'.majorLevel = 3]_vars

\* the first tick of a major-level-1 funnel has advanced 7.5 world units and
\* made a wall row
C27_Witness ==
    /\ lastOp = "spawn"
    /\ obstacleState.majorLevel = 1
    /\ obstacleState.phase = "funnel"
    /\ obstacleState.distance - obstacleState.phaseStartDistance
          = (75 * DistUnit) \div 10
    /\ obstacleState.nextSpawnDistance = obstacleState.distance + 2 * DistUnit
    /\ lastObstacles # <<>>

\* C28: every funnel wall row is symmetric about the centre line: a marker is
\* created at lateral position x if and only if one is created at -x.
C28_WallRowSymmetric ==
    (lastOp = "spawn" /\ obstacleState.phase = "funnel") =>
        \A k \in 1..Len(lastObstacles) :
            \E j \in 1..Len(lastObstacles) :
                /\ lastObstacles[j].x = - lastObstacles[k].x
                /\ lastObstacles[j].y = lastObstacles[k].y

\* C29: over the major-level-1 ticks of a session that starts at
\* getLevelSpeed(1), the speed spawnObstacles returns never exceeds
\* getLevelSpeed(level) + 0.5 for the current level, and a Normal-phase spawn
\* raises the speed by 0.01, or to that bound when 0.01 more would pass it.
C29_SpeedRamp ==
    [][obstacleState.majorLevel = 1 =>
         /\ speed' <= 50 + 30 * (obstacleState'.level - 1) + 50
         /\ (obstacleState.phase = "normal" /\ Len(lastObstacles') = 1) =>
               speed' = IF speed + 1 <= 50 + 30 * (obstacleState.level - 1) + 50
                          THEN speed + 1
                          ELSE 50 + 30 * (obstacleState.level - 1) + 50]_vars

\* a Normal-phase spawn of level 1 has been made with the speed at its bound
\* of 1.0
C29_Witness ==
    /\ lastOp = "spawn"
    /\ obstacleState.majorLevel = 1
    /\ obstacleState.level = 1
    /\ obstacleState.phase = "normal"
    /\ Len(lastObstacles) = 1
    /\ speed = 100
    /\ nextId > 52

C31_EveryMarkerOnce ==
    [][lastOp' = "update" =>
         \E delta \in UpdaterDeltas :
            /\ Len(cubes' \o lastCulled') = Len(cubes)
            /\ \A j \in 1..Len(cubes) :
                  /\ Cardinality({k \in 1..Len(cubes' \o lastCulled') :
                                    (cubes' \o lastCulled')[k].id = cubes[j].id}) = 1
                  /\ \A k \in 1..Len(cubes' \o lastCulled') :
                        (cubes' \o lastCulled')[k].id = cubes[j].id =>
                           (cubes' \o lastCulled')[k].z
                              = cubes[j].z + distanceDelta(delta, speed)
                  /\ Cardinality({n \in 1..Len(lastScores') :
                                    lastScores'[n][1] = cubes[j].id})
                        = IF (~cubes[j].passed)
                              /\ cubes[j].z + distanceDelta(delta, speed)
                                    > 4 * DistUnit
                            THEN 1 ELSE 0
                  /\ (cubes[j].id \in Ids(lastCulled'))
                        <=> (cubes[j].z + distanceDelta(delta, speed)
                                > 10 * DistUnit)
                  /\ (cubes[j].id \in Ids(cubes'))
                        <=> (cubes[j].z + distanceDelta(delta, speed)
                                <= 10 * DistUnit)
            /\ lastCollision' <=>
                  \E j \in 1..Len(cubes) :
                     /\ cubes[j].z + distanceDelta(delta, speed) > 2 * DistUnit
                     /\ cubes[j].z + distanceDelta(delta, speed) < 4 * DistUnit
                     /\ Abs(cubes[j].x - shipX') * 10 < 8 * XUnit
                     /\ Abs(cubes[j].y - shipY') * 10 < 12 * YUnit]_vars

\* one call has flagged a collision on the last marker of the list and then
\* removed the marker before it
C31_Witness ==
    /\ lastOp = "update"
    /\ lastCollision
    /\ lastCulled # <<>>
    /\ cubes # <<>>

\* C32: every wall row a funnel of major level 1 or 2 spawns leaves the centre
\* lane open: no marker of the row is at a lateral position with |x| <= 1.2,
\* so that none is within 0.8 of a ship at x = 0.
C32_CentreLaneOpen ==
    (/\ lastOp = "spawn"
     /\ obstacleState.phase = "funnel"
     /\ obstacleState.majorLevel \in {1, 2}) =>
        \A k \in 1..Len(lastObstacles) :
           /\ Abs(lastObstacles[k].x) * 10 > 12 * XUnit
           /\ ~(Abs(lastObstacles[k].x - 0) * 10 < 8 * XUnit)

\* a funnel of major level 2 has spawned a row in its last five world units,
\* with markers at x = -2, the wall position nearest to the centre line
C32_Witness ==
    /\ lastOp = "spawn"
    /\ obstacleState.phase = "funnel"
    /\ obstacleState.majorLevel = 2
    /\ obstacleState.funnelProgress * 55 > 50 * ProgressUnit
    /\ \E k \in 1..Len(lastObstacles) : lastObstacles[k].x = -2 * XUnit

\* C33: a marker that is within the ship's collision box laterally and
\* vertically for its whole approach (the ship does not move in this
\* session) does not pass the ship unnoticed: when a tick scores a marker
\* that was still short of the collision depths (z <= 2) before the tick, so
\* that no earlier tick can have reported it, this tick reports a collision.
C33_NoPassingUnnoticed ==
    [][lastOp' = "update" =>
         \A j \in 1..Len(cubes) :
            (/\ ~cubes[j].passed
             /\ cubes[j].z <= 2 * DistUnit
             /\ Abs(cubes[j].x - shipX) * 10 < 8 * XUnit
             /\ Abs(cubes[j].y - shipY) * 10 < 12 * YUnit
             /\ \E n \in 1..Len(lastScores') : lastScores'[n][1] = cubes[j].id)
               => lastCollision']_vars

\* C34: once the victory has been triggered, the frame that brings the time
\* elapsed since the trigger to VICTORY_DURATION or more invokes onVictory: a
\* frame that starts with isVictory set and lasts VICTORY_DURATION or longer
\* leaves App's victory set.
C34_VictoryCompletes ==
    [][(/\ lastOp' = "frame"
        /\ isVictory
        /\ time' - time >= VICTORY_DURATION) => victory']_vars

\* C35: a run never ends both ways: in no state of the game are isGameOver and
\* isVictory both true.
C35_NotBothEnds == ~(isGameOver /\ isVictory)

\* C36: along the spawnObstacles ticks that stay in major level 1,
\* getLevel1Progress never decreases, the ticks that change the phase
\* included.
C36_Level1ProgressMonotone ==
    [][(/\ lastOp' = "spawn"
        /\ obstacleState.majorLevel = 1
        /\ obstacleState'.majorLevel = 1) =>
          getLevel1Progress(obstacleState') >= getLevel1Progress(obstacleState)]_vars

\* C37: no frame of a session creates a high-tier marker, every onScore call
\* adds exactly 10, and the score counts the markers passed: start() sets it
\* to 0 and a frame raises it by 10 for each marker it scores, every marker
\* being scored for the first time.
C37_ScoreCountsMarkers ==
    [][/\ lastOp' = "frame" =>
            /\ \A k \in 1..Len(lastObstacles') : ~lastObstacles'[k].high
            /\ \A j \in 1..Len(cubes') : ~cubes'[j].high
            /\ \A n \in 1..Len(lastScores') :
                  /\ lastScores'[n][2] = 10
                  /\ timesScored'[lastScores'[n][1]] = 1
                  /\ \A m \in 1..Len(lastScores') :
                        lastScores'[m][1] = lastScores'[n][1] => m = n
            /\ scoreValue' = scoreValue + 10 * Len(lastScores')
       /\ lastOp' = "start" => scoreValue' = 0]_vars

\* a frame of a session has scored a marker after markers scored by earlier
\* frames
C37_Witness ==
    /\ lastOp = "frame"
    /\ lastScores # <<>>
    /\ scoreValue >= 20
    /\ scoreValue > 10 * Len(lastScores)

\* C38: in major level 2 every marker is at height 1.5 or 5.0, a wall row
\* holding a marker at each of the two heights for every lateral position it
\* fills, and a frame in which the ship's y is in [2.7, 3.8] reports no
\* collision, whatever the ship's x.
C38_BandBetweenRows ==
    (/\ lastOp = "frame"
     /\ majorLevel = 2
     /\ obstacleState # Null
     /\ obstacleState.majorLevel = 2) =>
        /\ \A j \in 1..Len(cubes) : cubes[j].y \in {LEVEL2_LOW_Y, LEVEL2_HIGH_Y}
        /\ \A k \in 1..Len(lastObstacles) :
              /\ lastObstacles[k].y \in {LEVEL2_LOW_Y, LEVEL2_HIGH_Y}
              /\ Len(lastObstacles) > 1 =>
                    \E m \in 1..Len(lastObstacles) :
                       /\ lastObstacles[m].x = lastObstacles[k].x
                       /\ lastObstacles[m].y # lastObstacles[k].y
        /\ (shipY * 10 >= 27 * YUnit /\ shipY * 10 <= 38 * YUnit) => ~lastCollision

\* a frame has taken a marker of the low row to the collision depths in the
\* lane of a ship at height 2.7 and has reported no collision
C38_Witness ==
    /\ lastOp = "frame"
    /\ majorLevel = 2
    /\ obstacleState # Null
    /\ obstacleState.majorLevel = 2
    /\ ~lastCollision
    /\ shipY * 10 = 27 * YUnit
    /\ \E j \in 1..Len(cubes) :
          /\ cubes[j].y = LEVEL2_LOW_Y
          /\ cubes[j].z > 2 * DistUnit
          /\ cubes[j].z < 4 * DistUnit
          /\ Abs(cubes[j].x - shipX) * 10 < 8 * XUnit

\* C39: pause freezes the run.  The P key has its effect, the toggle of
\* isPaused, only in a started run that is neither over nor won; nothing but
\* the P key and start() changes isPaused; and a frame that starts with
\* isPaused set changes none of ObstacleState, speed, score, the live markers
\* and the ship's position.
C39_PauseFreezes ==
    [][/\ lastOp' = "keyP" =>
            /\ isStarted /\ ~isGameOver /\ ~isVictory
            /\ isPaused' = ~isPaused
       /\ isPaused' # isPaused => lastOp' \in {"keyP", "start"}
       /\ (lastOp' = "frame" /\ isPaused) =>
            /\ obstacleState' = obstacleState
            /\ speed' = speed
            /\ scoreValue' = scoreValue
            /\ cubes' = cubes
            /\ scene' = scene
            /\ shipX' = shipX
            /\ shipY' = shipY
            /\ lastScores' = <<>>]_vars

\* a frame of 1.4 s or longer has passed over a paused run with a marker on
\* its way to the ship
C39_Witness ==
    /\ lastOp = "frame"
    /\ isPaused
    /\ time >= 2 * 42
    /\ obstacleState.distance > 0
    /\ \E j \in 1..Len(cubes) : cubes[j].z < 4 * DistUnit

\* C40: highScore never decreases; a run of the effect on an ended run whose
\* score is greater than highScore makes highScore that score and sets
\* isNewHighScore; and isNewHighScore, once set on an ended run, stays set
\* through every step but the next start, the effect's own re-runs included.
C40_NewHighScoreStays ==
    [][/\ highScore' >= highScore
       /\ (lastOp' = "effect" /\ (gameOver \/ victory) /\ score > highScore) =>
             /\ highScore' = score
             /\ isNewHighScore'
       /\ (isNewHighScore /\ (gameOver \/ victory) /\ lastOp' # "start") =>
             isNewHighScore']_vars

=============================================================================
